---- MODULE Spec2Model ----
(***************************************************************************)
(* mycpp/cppgen_pass.py: the AST pass that prints C++ code.                *)
(*                                                                         *)
(* The Generate visitor is modelled as a state record `s` (its fields) that *)
(* every visit_* method maps to a new record.  The output sink `f` is the   *)
(* sequence of write calls made so far; each write call is the sequence of  *)
(* its text pieces (the literal segments of the format string and the       *)
(* substituted arguments, in order), so Text(f) is the text written.        *)
(***************************************************************************)
EXTENDS Integers, Sequences, FiniteSets, TLC

VARIABLES
    module,      \* the MypyFile being translated (o.defs and the names of the front-end)
    pass,        \* which Generate instance is running: "forward", "decl", "define", "done"
    pc,          \* position inside visit_mypy_file: "begin", "defs", "end", "crashed"
    idx,         \* index in o.defs of the next node that visit_mypy_file accepts
    g,           \* the fields of the running Generate instance; g.virtual and
                 \* g.local_vars are the objects the driver hands to every instance
    out,         \* the text each pass wrote to its sink f
    run          \* the state of the emitted enumerate loop when it is executed

vars == <<module, pass, pc, idx, g, out, run>>

RECURSIVE Accept(_, _)
RECURSIVE AcceptAll(_, _)
RECURSIVE AcceptSep(_, _, _)
RECURSIVE get_c_type(_)
RECURSIVE CTypeRaises(_)
RECURSIVE Join(_, _)
RECURSIVE IntStr(_)
RECURSIVE IndStr(_)
RECURSIVE Text(_)
RECURSIVE Flat(_)
RECURSIVE Pieces(_)

-----------------------------------------------------------------------------
(* Strings *)

Digits == <<"0", "1", "2", "3", "4", "5", "6", "7", "8", "9">>

\* '%d' % n
IntStr(n) ==
    IF n < 10 THEN Digits[n + 1] ELSE IntStr(n \div 10) \o Digits[(n % 10) + 1]

\* sep.join(parts)
Join(parts, sep) ==
    IF Len(parts) = 0 THEN ""
    ELSE IF Len(parts) = 1 THEN parts[1]
    ELSE parts[1] \o sep \o Join(Tail(parts), sep)

\* self.indent * '  '
IndStr(n) == IF n = 0 THEN "" ELSE "  " \o IndStr(n - 1)

\* the text of one write call
Flat(w) == IF Len(w) = 0 THEN "" ELSE w[1] \o Flat(Tail(w))

\* the text of a sequence of write calls
Text(ws) == IF Len(ws) = 0 THEN "" ELSE Flat(ws[1]) \o Text(Tail(ws))

\* the pieces of a sequence of write calls, as those of one write call
Pieces(ws) == IF Len(ws) = 0 THEN <<>> ELSE ws[1] \o Pieces(Tail(ws))

Last(q) == q[Len(q)]

-----------------------------------------------------------------------------
(* mypy.types, as the front-end hands them over *)

NoneTyp == [k |-> "NoneTyp"]
AnyType == [k |-> "AnyType"]
\* parts is fullname().split('.'); bases are the fullnames of t.type.bases
Instance(parts, args, bases) ==
    [k |-> "Instance", parts |-> parts, args |-> args, bases |-> bases]
TupleType(items) == [k |-> "TupleType", items |-> items]
UnionType(items) == [k |-> "UnionType", items |-> items]
CallableType(arg_types, ret_type) ==
    [k |-> "CallableType", arg_types |-> arg_types, ret_type |-> ret_type]

fullname(t) == Join(t.parts, ".")

StrT == Instance(<<"builtins", "str">>, <<>>, <<"builtins.object">>)
IntT == Instance(<<"builtins", "int">>, <<>>, <<"builtins.object">>)
BoolT == Instance(<<"builtins", "bool">>, <<>>, <<"builtins.int">>)
ListT(t) == Instance(<<"builtins", "list">>, <<t>>, <<"builtins.object">>)
ClassT(mod, name) == Instance(<<mod, name>>, <<>>, <<"builtins.object">>)
OptionalT(t) == UnionType(<<t, NoneTyp>>)

\* a mutant of CTypeRaises: the second arm of a union is not looked at
CTypeRaises_any_second_arm(t) ==
    CASE t.k = "Instance" ->
           \E i \in 1..Len(t.args) : CTypeRaises(t.args[i])
      [] t.k = "TupleType" ->
           \E i \in 1..Len(t.items) : CTypeRaises(t.items[i])
      [] t.k = "UnionType" ->
           \/ Len(t.items) # 2
           \/ CTypeRaises(t.items[1])
      [] t.k = "CallableType" ->
           \/ CTypeRaises(t.ret_type)
           \/ \E i \in 1..Len(t.arg_types) : CTypeRaises(t.arg_types[i])
      [] t.k \in {"NoneTyp", "AnyType", "PartialType", "UninhabitedType"} -> FALSE
      [] OTHER -> TRUE

\* get_c_type raises NotImplementedError
CTypeRaises(t) ==
    CASE t.k = "Instance" ->
           \E i \in 1..Len(t.args) : CTypeRaises(t.args[i])
      [] t.k = "TupleType" ->
           \E i \in 1..Len(t.items) : CTypeRaises(t.items[i])
      [] t.k = "UnionType" ->
           \/ Len(t.items) # 2
           \/ t.items[2].k # "NoneTyp"
           \/ CTypeRaises(t.items[1])
      [] t.k = "CallableType" ->
           \/ CTypeRaises(t.ret_type)
           \/ \E i \in 1..Len(t.arg_types) : CTypeRaises(t.arg_types[i])
      [] t.k \in {"NoneTyp", "AnyType", "PartialType", "UninhabitedType"} -> FALSE
      [] OTHER -> TRUE

\* get_c_type(t), for a t on which it does not raise
get_c_type(t) ==
    CASE t.k = "NoneTyp" -> "void"
      [] t.k = "AnyType" -> "void*"
      [] t.k = "Instance" ->
           LET type_name == fullname(t) IN
           CASE type_name = "builtins.int" -> "int"
             [] type_name = "builtins.bool" -> "bool"
             [] type_name = "builtins.str" -> "Str*"
             [] type_name = "builtins.list" ->
                  "List<" \o get_c_type(t.args[1]) \o ">*"
             [] type_name = "builtins.dict" ->
                  "Dict<" \o Join([i \in 1..Len(t.args) |-> get_c_type(t.args[i])], ", ")
                          \o ">*"
             [] type_name = "typing.IO" -> "mylib::File*"
             [] OTHER ->
                  LET is_pointer ==
                          IF \E i \in 1..Len(t.bases) : t.bases[i] = "asdl.pybase.SimpleObj"
                          THEN "" ELSE "*"
                  IN  t.parts[Len(t.parts) - 1] \o "::" \o t.parts[Len(t.parts)]
                          \o is_pointer
      [] t.k = "PartialType" -> "void*"
      [] t.k = "UninhabitedType" -> "void"
      [] t.k = "TupleType" ->
           "Tuple" \o IntStr(Len(t.items)) \o "<"
               \o Join([i \in 1..Len(t.items) |-> get_c_type(t.items[i])], ", ") \o ">*"
      [] t.k = "UnionType" -> get_c_type(t.items[1])
      [] t.k = "CallableType" ->
           get_c_type(t.ret_type) \o " (*f)("
               \o Join([i \in 1..Len(t.arg_types) |-> get_c_type(t.arg_types[i])], ", ")
               \o ")"

-----------------------------------------------------------------------------
(* mypy.nodes, as the front-end hands them over.  The type table            *)
(* self.types[o] is the field `type` of the node; const_lookup[o] is the    *)
(* field `const` of a StrExpr.                                              *)

NameExpr(name, type) == [kind |-> "NameExpr", name |-> name, type |-> type]
IntExpr(value) == [kind |-> "IntExpr", value |-> value, type |-> IntT]
StrExpr(value, const) ==
    [kind |-> "StrExpr", value |-> value, const |-> const, type |-> StrT]
MemberExpr(expr, name, type) ==
    [kind |-> "MemberExpr", expr |-> expr, name |-> name, type |-> type]
CallExpr(callee, args, type) ==
    [kind |-> "CallExpr", callee |-> callee, args |-> args, type |-> type]
OpExpr(op, left, right, type) ==
    [kind |-> "OpExpr", op |-> op, left |-> left, right |-> right, type |-> type]
ComparisonExpr(operator, left, right) ==
    [kind |-> "ComparisonExpr", operators |-> <<operator>>,
     operands |-> <<left, right>>, type |-> BoolT]
TupleExpr(items, type) == [kind |-> "TupleExpr", items |-> items, type |-> type]

ExpressionStmt(expr) == [kind |-> "ExpressionStmt", expr |-> expr]
AssignmentStmt(lval, rvalue) ==
    [kind |-> "AssignmentStmt", lvalues |-> <<lval>>, rvalue |-> rvalue]
Block(body) == [kind |-> "Block", body |-> body]
\* expr is the list of conditions, body the list of blocks; else_body is a
\* Block or NoNode
IfStmt(expr, body, else_body) ==
    [kind |-> "IfStmt", expr |-> expr, body |-> body, else_body |-> else_body]
\* else_body is a Block or NoNode
NoNode == [kind |-> "None"]
ForStmt(index, expr, body, else_body, inferred_item_type) ==
    [kind |-> "ForStmt", index |-> index, expr |-> expr, body |-> body,
     else_body |-> else_body, inferred_item_type |-> inferred_item_type]
\* begin_index, end_index and stride are expressions or NoNode
SliceExpr(begin_index, end_index, stride) ==
    [kind |-> "SliceExpr", begin_index |-> begin_index, end_index |-> end_index,
     stride |-> stride]
IndexExpr(base, index, type) ==
    [kind |-> "IndexExpr", base |-> base, index |-> index, type |-> type]
\* vars[i] is a NameExpr or NoNode; else_body and finally_body are a Block or NoNode
TryStmt(body, types, vars_, handlers, else_body, finally_body) ==
    [kind |-> "TryStmt", body |-> body, types |-> types, vars |-> vars_,
     handlers |-> handlers, else_body |-> else_body, finally_body |-> finally_body]
\* id is the dotted module path as its parts; names are pairs <<name, alias>>,
\* alias being None where the import has no 'as'
ImportFrom(id, names) == [kind |-> "ImportFrom", id |-> id, names |-> names]
ContinueStmt == [kind |-> "ContinueStmt"]
BreakStmt == [kind |-> "BreakStmt"]
PassStmt == [kind |-> "PassStmt"]
\* id is the identity of the node (the key of local_vars); arguments are the
\* names arg.variable.name(), arg_types and ret_type are o.type's
FuncDef(id, name, arguments, arg_types, ret_type, body) ==
    [kind |-> "FuncDef", id |-> id, name |-> name, arguments |-> arguments,
     arg_types |-> arg_types, ret_type |-> ret_type, body |-> body]
ClassDef(name, base_type_exprs, defs) ==
    [kind |-> "ClassDef", name |-> name, base_type_exprs |-> base_type_exprs,
     defs |-> defs]

IsExpression(node) ==
    node.kind \in {"NameExpr", "IntExpr", "StrExpr", "MemberExpr", "CallExpr",
                   "OpExpr", "ComparisonExpr", "TupleExpr", "IndexExpr", "SliceExpr"}

\* isinstance(stmt, ExpressionStmt) and isinstance(stmt.expr, StrExpr)
IsDocstring(stmt) == stmt.kind = "ExpressionStmt" /\ stmt.expr.kind = "StrExpr"

-----------------------------------------------------------------------------
(* Generate: fields and the write methods *)

\* Python's None; '%s' % None is the text "None"
None == "None"

\* Generate.__init__
NewGenerate(virt, lvars, decl, forward_decl) ==
    [f |-> <<>>,
     virtual |-> virt,
     local_vars |-> lvars,
     fmt_funcs |-> <<>>,
     decl |-> decl,
     forward_decl |-> forward_decl,
     unique_id |-> 0,
     indent |-> 0,
     \* local_var_list is a reference to a list object: "init" is the list made
     \* by __init__ (held in own_list), any other value is the FuncDef whose
     \* local_vars entry is the same list object
     local_var_list |-> "init",
     own_list |-> <<>>,
     \* None and [] are both the empty sequence: the code only tests truthiness
     prepend_to_block |-> <<>>,
     in_func_body |-> FALSE,
     member_vars |-> <<>>,
     current_class_name |-> None,
     imported_names |-> {},
     \* the exception in flight, "" when there is none
     exc |-> ""]

\* raise e
Raise(s, e) == IF s.exc # "" THEN s ELSE [s EXCEPT !.exc = e]

\* self.f.write(msg % args), the last line of each write method
SinkWrite(s, w) == IF s.exc # "" THEN s ELSE [s EXCEPT !.f = Append(@, w)]

\* Generate.write
write(s, w) == IF s.decl \/ s.forward_decl THEN s ELSE SinkWrite(s, w)

\* Generate.write_ind
write_ind(s, w) ==
    IF s.decl \/ s.forward_decl THEN s ELSE SinkWrite(s, <<IndStr(s.indent)>> \o w)

\* Generate.decl_write
decl_write(s, w) == SinkWrite(s, w)

\* Generate.decl_write_ind
decl_write_ind(s, w) == SinkWrite(s, <<IndStr(s.indent)>> \o w)

\* self.fmt_funcs.write(...)
fmt_write(s, w) == IF s.exc # "" THEN s ELSE [s EXCEPT !.fmt_funcs = Append(@, w)]

\* self.local_var_list.append((name, c_type)): the list object may be the one
\* stored in local_vars
local_var_append(s, name, c_type) ==
    IF s.exc # "" THEN s
    ELSE IF s.local_var_list = "init"
         THEN [s EXCEPT !.own_list = Append(@, <<name, c_type>>)]
         ELSE [s EXCEPT !.local_vars[s.local_var_list] = Append(@, <<name, c_type>>)]

\* self.unique_id += 1
next_id(s) == IF s.exc # "" THEN s ELSE [s EXCEPT !.unique_id = @ + 1]

\* self.indent += d
add_indent(s, d) == IF s.exc # "" THEN s ELSE [s EXCEPT !.indent = @ + d]

\* for node in nodes: self.accept(node)
AcceptAll(nodes, s) ==
    IF Len(nodes) = 0 THEN s ELSE AcceptAll(Tail(nodes), Accept(nodes[1], s))

\* for i, item in enumerate(nodes): if i != first: write(', '); accept(item)
AcceptSep(nodes, first, s) ==
    IF Len(nodes) = 0 THEN s
    ELSE AcceptSep(Tail(nodes), FALSE,
                   Accept(nodes[1], IF first THEN s ELSE write(s, <<", ">>)))

-----------------------------------------------------------------------------
(* Expressions *)

visit_int_expr(o, s) == write(s, <<IntStr(o.value)>>)

\* a mutant of visit_str_expr: the literal itself, not the name of its constant
visit_str_expr_literal(o, s) == write(s, <<"\"" \o o.value \o "\"">>)

visit_str_expr(o, s) == write(s, <<o.const>>)

visit_name_expr(o, s) ==
    CASE o.name = "None" -> write(s, <<"nullptr">>)
      [] o.name = "True" -> write(s, <<"true">>)
      [] o.name = "False" -> write(s, <<"false">>)
      [] o.name = "self" -> write(s, <<"this">>)
      [] OTHER -> write(s, <<o.name>>)

visit_member_expr(o, s) ==
    IF o.expr.kind # "None"
    THEN LET op == IF /\ o.expr.kind = "NameExpr"
                      /\ \/ o.expr.name \in s.imported_names
                         \/ o.expr.name = "mylib"
                         \/ o.name = "__init__"
                   THEN "::" ELSE "->"
             s1 == Accept(o.expr, s)
             s2 == write(s1, <<op>>)
         IN  write(s2, <<o.name>>)
    ELSE write(s, <<o.name>>)

\* the argument loop of visit_call_expr, from argument i (0-based) on
RECURSIVE CallArgs(_, _, _, _)
CallArgs(args, i, printf_style, s) ==
    IF i >= Len(args) THEN s
    ELSE LET arg == args[i + 1]
             s1 == IF i # 0 THEN write(s, <<", ">>) ELSE s
             s2 == Accept(arg, s1)
             \* Add ->data_ to string arguments after the first one
             s3 == IF printf_style /\ i # 0
                   THEN LET typ == arg.type
                            t == IF typ.k = "UnionType" THEN typ.items[1] ELSE typ
                        IN  IF t.k # "Instance" THEN Raise(s2, "AttributeError")
                            ELSE IF fullname(t) = "builtins.str"
                                 THEN write(s2, <<"->data_">>) ELSE s2
                   ELSE s2
         IN  CallArgs(args, i + 1, printf_style, s3)

\* typ.name.replace('__', '_e::'); a name without '__' is unchanged
tag_of(name) ==
    CASE name = "source__CFlag" -> "source_e::CFlag"
      [] name = "word__Token" -> "word_e::Token"
      [] OTHER -> name

visit_call_expr(o, s) ==
    IF o.callee.name = "isinstance"
    THEN IF Len(o.args) # 2 THEN Raise(s, "NameError")
         ELSE LET obj == o.args[1]
                  typ == o.args[2]
                  s1 == Accept(obj, s)
                  s2 == write(s1, <<"->tag == ">>)
              IN  IF typ.kind # "NameExpr" THEN Raise(s2, "AssertionError")
                  ELSE write(s2, <<tag_of(typ.name)>>)
    ELSE LET printf_style == (o.callee.name = "log")
             callee_name == o.callee.name
             callee_type == o.callee.type
             is_new ==
                 /\ callee_type.k = "CallableType"
                 /\ callee_name # "str"
                 /\ callee_type.ret_type.k = "Instance"
                 /\ callee_name = Last(callee_type.ret_type.parts)
             s1 == IF is_new THEN write(s, <<"new ">>) ELSE s
             s2 == IF callee_name = "int" THEN write(s1, <<"str_to_int">>)
                   ELSE Accept(o.callee, s1)
             s3 == write(s2, <<"(">>)
             s4 == CallArgs(o.args, 0, printf_style, s3)
         IN  write(s4, <<")">>)

\* format_strings.LiteralPart / SubstPart
LiteralPart(str, strlen) == [part |-> "LiteralPart", s |-> str, strlen |-> strlen]
SubstPart(char_code, arg_num) ==
    [part |-> "SubstPart", char_code |-> char_code, arg_num |-> arg_num]

\* format_strings.Parse(fmt), on the templates the modules below use
Parse(fmt) ==
    CASE fmt = "%d" -> <<SubstPart("d", 0)>>
      [] fmt = "%s" -> <<SubstPart("s", 0)>>
      [] fmt = "a%s" -> <<LiteralPart("a", 1), SubstPart("s", 0)>>
      [] fmt = "b%s" -> <<LiteralPart("b", 1), SubstPart("s", 0)>>
      [] fmt = "c%s" -> <<LiteralPart("c", 1), SubstPart("s", 0)>>
      [] fmt = "%s=%d" -> <<SubstPart("s", 0), LiteralPart("=", 1), SubstPart("d", 1)>>
      [] OTHER -> <<LiteralPart(fmt, Len(fmt))>>

\* json.dumps(s), for a string without characters that need escaping
json_dumps(str) == "\"" \o str \o "\""

\* 'fmt%d' % self.unique_id
fmt_name(s) == "fmt" \o IntStr(s.unique_id)

\* 'tup%d' % self.unique_id
tup_name(s) == "tup" \o IntStr(s.unique_id)

\* the parameter list of the fmtX() function
RECURSIVE fmt_params(_, _, _)
fmt_params(items, i, s) ==
    IF i >= Len(items) THEN s
    ELSE LET s1 == IF i # 0 THEN fmt_write(s, <<", ">>) ELSE s
             s2 == IF CTypeRaises(items[i + 1]) THEN Raise(s1, "NotImplementedError")
                   ELSE fmt_write(s1, <<get_c_type(items[i + 1]), " a", IntStr(i)>>)
         IN  fmt_params(items, i + 1, s2)

\* the body of the fmtX() function
RECURSIVE fmt_parts(_, _)
fmt_parts(parts, s) ==
    IF Len(parts) = 0 THEN s
    ELSE LET part == parts[1]
             s1 == IF part.part = "LiteralPart"
                   THEN fmt_write(s, <<"  gBuf.write_const(", json_dumps(part.s), ", ",
                                       IntStr(part.strlen), ");\n">>)
                   ELSE fmt_write(s, <<"  gBuf.format_", part.char_code, "(a",
                                       IntStr(part.arg_num), ");\n">>)
         IN  fmt_parts(Tail(parts), s1)

\* visit_op_expr, if self.decl: write a buffer with fmtX() functions
fmt_func(o, temp_name, right_type, right_ctype, parts, s) ==
    LET s1 == fmt_write(s, <<"Str* ", temp_name, "(">>)
        s2 == CASE right_type.k = "Instance" -> fmt_write(s1, <<right_ctype, " a0">>)
                [] right_type.k = "TupleType" -> fmt_params(right_type.items, 0, s1)
                [] /\ right_type.k = "UnionType"
                   /\ Len(right_type.items) = 2
                   /\ right_type.items[2].k = "NoneTyp" ->
                       fmt_write(s1, <<get_c_type(right_type.items[1]), " a0">>)
                [] OTHER -> Raise(s1, "AssertionError")
        s3 == fmt_write(s2, <<") {\n">>)
        s4 == fmt_write(s3, <<"  gBuf.clear();\n">>)
        s5 == fmt_parts(parts, s4)
        s6 == fmt_write(s5, <<"  return gBuf.getvalue();\n">>)
        s7 == fmt_write(s6, <<"}\n">>)
    IN  fmt_write(s7, <<"\n">>)

\* visit_op_expr, the branch left_ctype == 'Str*' and c_op == '%'
visit_format_expr(o, right_type, right_ctype, s) ==
    IF o.left.kind # "StrExpr" THEN Raise(s, "AssertionError")
    ELSE LET fmt == o.left.value
             parts == Parse(fmt)
             temp_name == fmt_name(s)
             s1 == next_id(s)
             s2 == IF s1.decl
                   THEN fmt_func(o, temp_name, right_type, right_ctype, parts, s1)
                   ELSE s1
             \* In the definition pass, write the call site.
             s3 == write(s2, <<temp_name, "(">>)
             s4 == IF right_type.k = "TupleType"
                   THEN IF o.right.kind # "TupleExpr" THEN Raise(s3, "AttributeError")
                        ELSE AcceptSep(o.right.items, TRUE, s3)
                   ELSE Accept(o.right, s3)
         IN  write(s4, <<")">>)

\* a mutant of op_helper: int * str is a repeat call as well
op_helper_commutative(left_ctype, right_ctype, c_op) ==
    CASE left_ctype = "Str*" /\ right_ctype = "Str*" /\ c_op = "+" -> "str_concat"
      [] {left_ctype, right_ctype} = {"Str*", "int"} /\ c_op = "*" -> "str_repeat"
      [] left_ctype = "Str*" /\ c_op = "%" -> "fmt"
      [] OTHER -> ""

\* visit_op_expr: the tests on the C types of the operands and the operator,
\* in the order of the code; "" is the infix operator
op_helper(left_ctype, right_ctype, c_op) ==
    CASE left_ctype = "Str*" /\ right_ctype = "Str*" /\ c_op = "+" -> "str_concat"
      [] left_ctype = "Str*" /\ right_ctype = "int" /\ c_op = "*" -> "str_repeat"
      \* RHS can be primitive or tuple
      [] left_ctype = "Str*" /\ c_op = "%" -> "fmt"
      [] OTHER -> ""

visit_op_expr(o, s) ==
    LET c_op == o.op
        left_type == o.left.type
        right_type == o.right.type
    IN  IF CTypeRaises(left_type) \/ CTypeRaises(right_type)
        THEN Raise(s, "NotImplementedError")
        ELSE
        LET left_ctype == get_c_type(left_type)
            right_ctype == get_c_type(right_type)
            helper == op_helper(left_ctype, right_ctype, c_op)
        IN  CASE helper = "str_concat" ->
                   LET s1 == write(s, <<"str_concat(">>)
                       s2 == Accept(o.left, s1)
                       s3 == write(s2, <<", ">>)
                       s4 == Accept(o.right, s3)
                   IN  write(s4, <<")">>)
              [] helper = "str_repeat" ->
                   LET s1 == write(s, <<"str_repeat(">>)
                       s2 == Accept(o.left, s1)
                       s3 == write(s2, <<", ">>)
                       s4 == Accept(o.right, s3)
                   IN  write(s4, <<")">>)
              [] helper = "fmt" ->
                   visit_format_expr(o, right_type, right_ctype, s)
              [] OTHER ->
                   LET s1 == Accept(o.left, s)
                       s2 == write(s1, <<" ", c_op, " ">>)
                   IN  Accept(o.right, s2)

\* visit_comparison_expr: 0 not a special case, 1 str, 2 Optional[...]
cmp_type(t) ==
    IF t.k = "UnionType" /\ Len(t.items) = 2 /\ t.items[2].k = "NoneTyp" THEN 2
    ELSE IF t.k = "Instance" /\ fullname(t) = "builtins.str" THEN 1
    ELSE 0

\* a mutant of equals_helper: the strict helper whatever the operand types
equals_helper_strict(left_type, right_type) == "str_equals("

\* the helper of a string comparison
equals_helper(left_type, right_type) ==
    IF left_type > 1 \/ right_type > 1 THEN "maybe_str_equals(" ELSE "str_equals("

\* a mutant of visit_comparison_expr: 'is' and 'is not' are not told from
\* '==' and '!=' when the string helpers are chosen
visit_comparison_expr_identity_as_equality(o, s) ==
    LET operator == o.operators[1]
        left == o.operands[1]
        right == o.operands[2]
        left_type == cmp_type(left.type)
        right_type == cmp_type(right.type)
    IN  IF left_type > 0 /\ right_type > 0 /\ operator \in {"==", "!=", "is", "is not"}
        THEN LET s1 == IF operator \in {"!=", "is not"} THEN write(s, <<"!(">>) ELSE s
                 s2 == write(s1, <<equals_helper(left_type, right_type)>>)
                 s3 == Accept(left, s2)
                 s4 == write(s3, <<", ">>)
                 s5 == Accept(right, s4)
                 s6 == write(s5, <<")">>)
             IN  IF operator \in {"!=", "is not"} THEN write(s6, <<")">>) ELSE s6
        ELSE LET s1 == Accept(left, s)
                 s2 == write(s1, <<" ", IF operator = "is" THEN "=="
                                        ELSE IF operator = "is not" THEN "!="
                                        ELSE operator, " ">>)
             IN  Accept(right, s2)

visit_comparison_expr(o, s) ==
    IF Len(o.operators) # 1 \/ Len(o.operands) # 2 THEN Raise(s, "AssertionError")
    ELSE
    LET operator == o.operators[1]
        left == o.operands[1]
        right == o.operands[2]
        left_type == cmp_type(left.type)
        right_type == cmp_type(right.type)
    IN  CASE operator = "is" ->
               LET s1 == Accept(left, s)
                   s2 == write(s1, <<" == ">>)
               IN  Accept(right, s2)
          [] operator = "is not" ->
               LET s1 == Accept(left, s)
                   s2 == write(s1, <<" != ">>)
               IN  Accept(right, s2)
          [] left_type > 0 /\ right_type > 0 /\ operator \in {"==", "!="} ->
               LET s1 == IF operator = "!=" THEN write(s, <<"!(">>) ELSE s
                   s2 == write(s1, <<equals_helper(left_type, right_type)>>)
                   s3 == Accept(left, s2)
                   s4 == write(s3, <<", ">>)
                   s5 == Accept(right, s4)
                   s6 == write(s5, <<")">>)
               IN  IF operator = "!=" THEN write(s6, <<")">>) ELSE s6
          [] operator = "in" ->
               LET s1 == Accept(right, s)
                   s2 == write(s1, <<"->contains(">>)
                   s3 == Accept(left, s2)
               IN  write(s3, <<")">>)
          [] operator = "not in" ->
               LET s0 == write(s, <<"!(">>)
                   s1 == Accept(right, s0)
                   s2 == write(s1, <<"->contains(">>)
                   s3 == Accept(left, s2)
               IN  write(s3, <<"))">>)
          [] OTHER ->
               LET s1 == Accept(left, s)
                   s2 == write(s1, <<" ", operator, " ">>)
               IN  Accept(right, s2)

visit_index_expr(o, s) ==
    LET s1 == Accept(o.base, s)
    IN  IF o.index.kind = "SliceExpr"
        THEN Accept(o.index, s1)  \* method call
        ELSE LET s2 == write(s1, <<"->index(">>)
                 s3 == Accept(o.index, s2)
             IN  write(s3, <<")">>)

visit_slice_expr(o, s) ==
    LET s1 == write(s, <<"->slice(">>)
        s2 == IF o.begin_index.kind # "None" THEN Accept(o.begin_index, s1)
              ELSE write(s1, <<"0">>)  \* implicit beginning
        s3 == IF o.end_index.kind # "None"
              THEN Accept(o.end_index, write(s2, <<", ">>))
              ELSE s2
        s4 == write(s3, <<")">>)
    IN  IF o.stride.kind # "None" THEN Raise(s4, "AssertionError") ELSE s4

\* c_type[:-1] of a tuple type: get_c_type without the final '*'
tuple_c_type_no_star(t) ==
    "Tuple" \o IntStr(Len(t.items)) \o "<"
        \o Join([i \in 1..Len(t.items) |-> get_c_type(t.items[i])], ", ") \o ">"

visit_tuple_expr(o, s) ==
    LET tuple_type == o.type IN
    IF CTypeRaises(tuple_type) THEN Raise(s, "NotImplementedError")
    ELSE IF tuple_type.k # "TupleType" THEN Raise(s, "AssertionError")
    ELSE LET c_type == tuple_c_type_no_star(tuple_type) IN
         IF Len(o.items) = 0 THEN write(s, <<"new ", c_type, "()">>)
         ELSE LET s1 == write(s, <<"new ", c_type, "(">>)
                  s2 == AcceptSep(o.items, TRUE, s1)
              IN  write(s2, <<")">>)

-----------------------------------------------------------------------------
(* Statements *)

\* a mutant of write_tuple_unpacking: the discard name '_' is not skipped
RECURSIVE write_tuple_unpacking_keep_discard(_, _, _, _, _)
write_tuple_unpacking_keep_discard(temp_name, lval_items, item_types, i, s) ==
    IF i >= Len(lval_items) \/ i >= Len(item_types) THEN s
    ELSE
    LET lval_item == lval_items[i + 1]
        rhs(st) == write(st, <<" = ", temp_name, "->at", IntStr(i), "();\n">>)
        s1 == IF lval_item.kind = "NameExpr"
              THEN rhs(write_ind(s, <<lval_item.name>>))
              ELSE rhs(Accept(lval_item, write_ind(s, <<>>)))
    IN  write_tuple_unpacking_keep_discard(temp_name, lval_items, item_types, i + 1, s1)

\* _write_tuple_unpacking, from position i (0-based) of zip(lval_items, item_types)
RECURSIVE write_tuple_unpacking(_, _, _, _, _)
write_tuple_unpacking(temp_name, lval_items, item_types, i, s) ==
    IF i >= Len(lval_items) \/ i >= Len(item_types) THEN s
    ELSE
    LET lval_item == lval_items[i + 1]
        item_type == item_types[i + 1]
        rhs(st) == write(st, <<" = ", temp_name, "->at", IntStr(i), "();\n">>)
        s1 == IF lval_item.kind = "NameExpr"
              THEN IF lval_item.name = "_" THEN s
                   ELSE IF CTypeRaises(item_type) THEN Raise(s, "NotImplementedError")
                   ELSE LET item_c_type == get_c_type(item_type)
                            \* declare it at the top of the function
                            sa == IF s.decl
                                  THEN local_var_append(s, lval_item.name, item_c_type)
                                  ELSE s
                        IN  rhs(write_ind(sa, <<lval_item.name>>))
              ELSE \* Could be MemberExpr like self.foo, self.bar = baz
                   rhs(Accept(lval_item, write_ind(s, <<>>)))
    IN  write_tuple_unpacking(temp_name, lval_items, item_types, i + 1, s1)

\* self.member_vars[name] = type
member_vars_set(s, name, type) ==
    IF s.exc # "" THEN s
    ELSE [s EXCEPT !.member_vars =
             [n \in DOMAIN @ \cup {name} |-> IF n = name THEN type ELSE @[n]]]

visit_assignment_stmt(o, s) ==
    IF Len(o.lvalues) # 1 THEN Raise(s, "AssertionError")
    ELSE
    LET lval == o.lvalues[1] IN
    CASE o.rvalue.kind = "CallExpr" /\ o.rvalue.callee.name = "cast" ->
           IF lval.kind # "NameExpr" THEN Raise(s, "AssertionError")
           ELSE
           LET call == o.rvalue
               type_expr == call.args[1]
               name0 == IF type_expr.kind = "MemberExpr"
                        THEN type_expr.expr.name \o "::" \o type_expr.name
                        ELSE type_expr.name
               subtype_name == IF name0 # "int" THEN name0 \o "*" ELSE name0
               s1 == write_ind(s, <<subtype_name, " ", lval.name, " = static_cast<",
                                    subtype_name, ">(">>)
               s2 == Accept(call.args[2], s1)
           IN  write(s2, <<");\n">>)
      [] lval.kind = "NameExpr" ->
           IF lval.name = "_" THEN s
           ELSE IF CTypeRaises(lval.type) THEN Raise(s, "NotImplementedError")
           ELSE
           LET c_type == get_c_type(lval.type)
               \* for "hoisting" to the top of the function
               s1 == IF s.in_func_body
                     THEN LET sa == write_ind(s, <<lval.name, " = ">>)
                          IN  IF s.decl THEN local_var_append(sa, lval.name, c_type)
                              ELSE sa
                     \* globals always get a type -- they're not mutated
                     ELSE write_ind(s, <<c_type, " ", lval.name, " = ">>)
               s2 == Accept(o.rvalue, s1)
           IN  write(s2, <<";\n">>)
      [] lval.kind = "MemberExpr" ->
           LET s1 == write_ind(s, <<>>)
               s2 == Accept(lval, s1)
               s3 == write(s2, <<" = ">>)
               s4 == Accept(o.rvalue, s3)
               s5 == write(s4, <<";\n">>)
           IN  \* Collect statements that look like self.foo = 1
               IF lval.expr.kind = "NameExpr" /\ lval.expr.name = "self"
               THEN member_vars_set(s5, lval.name, lval.type)
               ELSE s5
      [] lval.kind = "TupleExpr" ->
           LET rvalue_type == o.rvalue.type IN
           IF CTypeRaises(rvalue_type) THEN Raise(s, "NotImplementedError")
           ELSE
           LET c_type == get_c_type(rvalue_type)
               temp_name == tup_name(s)
               s1 == next_id(s)
               s2 == write_ind(s1, <<c_type, " ", temp_name, " = ">>)
               s3 == Accept(o.rvalue, s2)
               s4 == write(s3, <<";\n">>)
           IN  IF rvalue_type.k # "TupleType" THEN Raise(s4, "AttributeError")
               ELSE write_tuple_unpacking(temp_name, lval.items, rvalue_type.items, 0, s4)
      [] OTHER -> Raise(s, "AssertionError")

\* get_c_type(over_type).replace('List', 'ListIter')[:-1], over the list types
RECURSIVE list_iter_type(_)
list_iter_type(t) ==
    IF t.k = "Instance" /\ fullname(t) = "builtins.list"
    THEN "ListIter<" \o list_iter_type(t.args[1]) \o ">*"
    ELSE get_c_type(t)

\* "Copy of visit_block, without opening {"
RECURSIVE accept_body(_, _)
accept_body(stmts, s) ==
    IF Len(stmts) = 0 THEN s
    ELSE accept_body(Tail(stmts),
                     IF IsDocstring(stmts[1]) THEN s ELSE Accept(stmts[1], s))

\* a mutant of index_update: the counter is never incremented
index_update_never(index0_name) == ""

\* the third clause of the loop header after it.Next()
index_update(index0_name) == IF index0_name # None THEN ", ++" \o index0_name ELSE ""

\* visit_for_stmt, the iterator loop (every shape but xrange)
visit_for_iter(o, s) ==
    LET func_name == IF o.expr.kind = "CallExpr" /\ o.expr.callee.kind = "NameExpr"
                     THEN o.expr.callee.name ELSE None
        is_enum == (func_name = "enumerate")
    IN
    IF is_enum /\ (o.index.kind # "TupleExpr" \/ o.index.items[1].kind # "NameExpr"
                   \/ Len(o.expr.args) # 1)
    THEN Raise(s, "AssertionError")
    ELSE
    LET index0_name == IF is_enum THEN o.index.items[1].name ELSE None
        \* type of 'x' in 'for i, x in enumerate(...)'
        item_type == IF is_enum THEN o.inferred_item_type.items[2]
                     ELSE o.inferred_item_type
        index_expr == IF is_enum THEN o.index.items[2] ELSE o.index
        iterated_over == IF is_enum THEN o.expr.args[1] ELSE o.expr
        over_type == iterated_over.type
    IN
    IF over_type.k # "Instance" THEN Raise(s, "AttributeError")
    ELSE IF fullname(over_type) = "builtins.list" /\ CTypeRaises(over_type)
    THEN Raise(s, "NotImplementedError")
    ELSE
    LET c_iter_type ==
            IF fullname(over_type) = "builtins.list"
            THEN "ListIter<" \o list_iter_type(over_type.args[1]) \o ">"
            ELSE "StrIter"
        s1 == IF index0_name # None
              THEN \* can't initialize two things in a for loop
                   LET sa == IF s.decl THEN local_var_append(s, index0_name, "int")
                             ELSE s
                   IN  write_ind(sa, <<index0_name, " = 0;\n">>)
              ELSE s
        s2 == write_ind(s1, <<"for (", c_iter_type, " it(">>)
        s3 == Accept(iterated_over, s2)
        s4 == write(s3, <<"); !it.Done(); it.Next()", index_update(index0_name),
                          ") {\n">>)
        s5 == IF item_type.k = "Instance" \/ index0_name # None
              THEN IF CTypeRaises(item_type) THEN Raise(s4, "NotImplementedError")
                   ELSE LET sa == write_ind(s4, <<"  ", get_c_type(item_type), " ">>)
                            sb == Accept(index_expr, sa)
                        IN  write(sb, <<" = it.Value();\n">>)
              ELSE IF item_type.k = "TupleType"
              THEN IF CTypeRaises(item_type) THEN Raise(s4, "NotImplementedError")
                   ELSE
                   LET temp_name == tup_name(s4)
                       sa == next_id(s4)
                       sb == write_ind(sa, <<"  ", get_c_type(item_type), " ", temp_name,
                                             " = it.Value();\n">>)
                   IN  IF o.index.kind # "TupleExpr" THEN Raise(sb, "AssertionError")
                       ELSE add_indent(
                                write_tuple_unpacking(temp_name, o.index.items,
                                                      item_type.items, 0,
                                                      add_indent(sb, 1)),
                                -1)
              ELSE Raise(s4, "AssertionError")
        s6 == add_indent(s5, 1)
        s7 == accept_body(o.body.body, s6)
        s8 == add_indent(s7, -1)
        s9 == write_ind(s8, <<"}\n">>)
    IN  IF o.else_body.kind # "None" THEN Accept(o.else_body, s9) ELSE s9

\* a mutant of visit_for_stmt: no special case for xrange
visit_for_stmt_no_special_case(o, s) == visit_for_iter(o, s)

visit_for_stmt(o, s) ==
    LET func_name == IF o.expr.kind = "CallExpr" /\ o.expr.callee.kind = "NameExpr"
                     THEN o.expr.callee.name ELSE None
    IN
    \* special case: 'for i in xrange(3)'
    IF func_name = "xrange"
    THEN LET index_name == o.index.name
             args == o.expr.args
             num_args == Len(args)
         IN  CASE num_args = 1 ->  \* xrange(end)
                    LET s1 == write_ind(s, <<"for (int ", index_name, " = 0; ",
                                             index_name, " < ">>)
                        s2 == Accept(args[1], s1)
                        s3 == write(s2, <<"; ++", index_name, ") ">>)
                    IN  Accept(o.body, s3)
               [] num_args = 2 ->  \* xrange(begin, end)
                    LET s1 == write_ind(s, <<"for (int ", index_name, " = ">>)
                        s2 == Accept(args[1], s1)
                        s3 == write(s2, <<"; ", index_name, " < ">>)
                        s4 == Accept(args[2], s3)
                        s5 == write(s4, <<"; ++", index_name, ") ">>)
                    IN  Accept(o.body, s5)
               [] OTHER -> Raise(s, "AssertionError")
    ELSE visit_for_iter(o, s)

\* _write_func_args, from position i (0-based) of zip(o.type.arg_types, o.arguments)
RECURSIVE write_func_args(_, _, _, _)
write_func_args(o, i, first, s) ==
    IF i >= Len(o.arguments) \/ i >= Len(o.arg_types) THEN s
    ELSE
    LET s1 == IF ~first THEN decl_write(s, <<", ">>) ELSE s
        arg_name == o.arguments[i + 1]
    IN  IF CTypeRaises(o.arg_types[i + 1]) THEN Raise(s1, "NotImplementedError")
        \* C++ has implicit 'this'
        ELSE IF arg_name = "self" THEN write_func_args(o, i + 1, first, s1)
        ELSE write_func_args(o, i + 1, FALSE,
                 decl_write(s1, <<get_c_type(o.arg_types[i + 1]), " ", arg_name>>))

(* The Virtual-Method Registry (self.virtual) *)

\* Virtual.OnMethod
OnMethod(v, class_name, method_name) ==
    [v EXCEPT !.methods = @ \cup {<<class_name, method_name>>}]

\* Virtual.OnSubclass
OnSubclass(v, base_class, subclass) ==
    [v EXCEPT !.subclasses = @ \cup {<<base_class, subclass>>}]

\* Virtual.IsVirtual: is method_name of class_name overridden by a subclass
IsVirtual(v, class_name, method_name) ==
    \E link \in v.subclasses :
        link[1] = class_name /\ <<link[2], method_name>> \in v.methods

\* [(n, t) for (n, t) in self.local_vars[o] if n not in arg_names]
no_args(o, s) ==
    SelectSeq(s.local_vars[o.id],
              LAMBDA e : ~(\E i \in 1..Len(o.arguments) : o.arguments[i] = e[1]))

\* self.in_func_body = b
set_in_func_body(s, b) == IF s.exc # "" THEN s ELSE [s EXCEPT !.in_func_body = b]

\* a mutant of is_virtual_method: the class of the method is not looked at
is_virtual_method_any_class(o, s) ==
    s.decl /\ \E link \in s.virtual.subclasses : <<link[2], o.name>> \in s.virtual.methods

\* visit_func_def: if self.decl: if self.virtual.IsVirtual(...)
is_virtual_method(o, s) ==
    s.decl /\ IsVirtual(s.virtual, s.current_class_name, o.name)

visit_func_def(o, s) ==
    \* Skip these for now
    IF o.name = "__repr__" THEN s
    \* No function prototypes when forward declaring.
    ELSE IF s.forward_decl
    THEN [s EXCEPT !.virtual = OnMethod(@, s.current_class_name, o.name)]
    ELSE
    LET s1 == IF s.decl
              THEN \* Make a new instance to collect from
                   [s EXCEPT !.local_var_list = o.id,
                             !.local_vars =
                                 [k \in DOMAIN @ \cup {o.id} |->
                                     IF k = o.id THEN <<>> ELSE @[k]]]
              ELSE s
        virt == IF is_virtual_method(o, s) THEN "virtual " ELSE ""
        func_name == IF ~s.decl /\ s.current_class_name # None
                     THEN s.current_class_name \o "::" \o o.name
                     ELSE o.name
        s2 == write(s1, <<"\n">>)
    IN
    IF CTypeRaises(o.ret_type) THEN Raise(s2, "NotImplementedError")
    ELSE
    LET c_type == get_c_type(o.ret_type)
        s3 == decl_write_ind(s2, <<virt, c_type, " ", func_name, "(">>)
        s4 == write_func_args(o, 0, TRUE, s3)
    IN
    IF s.decl
    THEN LET s5 == decl_write(s4, <<");\n">>)
             s6 == set_in_func_body(s5, TRUE)
             \* Collect member_vars, but don't write anything
             s7 == Accept(o.body, s6)
         IN  set_in_func_body(s7, FALSE)
    ELSE LET s5 == write(s4, <<") ">>)
             \* Write local vars we collected in the 'decl' phase
             s6 == IF s5.exc # "" THEN s5
                   ELSE IF o.id \notin DOMAIN s5.local_vars THEN Raise(s5, "KeyError")
                   ELSE [s5 EXCEPT !.prepend_to_block = no_args(o, s5)]
             s7 == set_in_func_body(s6, TRUE)
             s8 == Accept(o.body, s7)
         IN  set_in_func_body(s8, FALSE)

\* a mutant of write_prepend: no `done` set, a name is declared as often as recorded
RECURSIVE write_prepend_no_done(_, _, _)
write_prepend_no_done(entries, done, s) ==
    IF Len(entries) = 0 THEN s
    ELSE write_prepend_no_done(Tail(entries), done,
                               write_ind(s, <<entries[1][2], " ", entries[1][1], ";\n">>))

\* the declarations visit_block writes after '{'
RECURSIVE write_prepend(_, _, _)
write_prepend(entries, done, s) ==
    IF Len(entries) = 0 THEN s
    ELSE LET lval_name == entries[1][1]
             c_type == entries[1][2]
         IN  IF lval_name \notin done
             THEN write_prepend(Tail(entries), done \cup {lval_name},
                                write_ind(s, <<c_type, " ", lval_name, ";\n">>))
             ELSE write_prepend(Tail(entries), done, s)

visit_block(block, s) ==
    LET s1 == write(s, <<"{\n">>)  \* not indented to use same line as while/if
        s2 == add_indent(s1, 1)
        s3 == IF Len(s2.prepend_to_block) > 0 /\ s2.exc = ""
              THEN LET sa == write_prepend(s2.prepend_to_block, {}, s2)
                       sb == write(sa, <<"\n">>)
                   IN  [sb EXCEPT !.prepend_to_block = <<>>]
              ELSE s2
        s4 == accept_body(block.body, s3)
        s5 == add_indent(s4, -1)
    IN  write_ind(s5, <<"}\n">>)

visit_expression_stmt(o, s) ==
    LET s1 == write_ind(s, <<>>)
        s2 == Accept(o.expr, s1)
    IN  write(s2, <<";\n">>)

\* a mutant of if_omitted: 'if 0:' is not among the omitted statements
if_omitted_but_zero(cond) ==
    \/ /\ cond.kind = "ComparisonExpr"
       /\ cond.operands[1].kind = "NameExpr"
       /\ cond.operands[1].name = "__name__"
    \/ cond.kind = "NameExpr" /\ cond.name = "TYPE_CHECKING"

\* visit_if_stmt: the conditions whose statement is omitted
if_omitted(cond) ==
    \* Omit anything that looks like if __name__ == ...
    \/ /\ cond.kind = "ComparisonExpr"
       /\ cond.operands[1].kind = "NameExpr"
       /\ cond.operands[1].name = "__name__"
    \* Omit if 0:
    \/ cond.kind = "IntExpr" /\ cond.value = 0
    \* Omit if TYPE_CHECKING blocks
    \/ cond.kind = "NameExpr" /\ cond.name = "TYPE_CHECKING"

visit_if_stmt(o, s) ==
    \* Not sure why this wouldn't be true
    IF Len(o.expr) # 1 THEN Raise(s, "AssertionError")
    ELSE
    LET cond == o.expr[1] IN
    IF if_omitted(cond) THEN s
    \* mylib.CPP
    ELSE IF cond.kind = "MemberExpr" /\ cond.name = "CPP"
    THEN \* just take the if block
         LET s1 == write_ind(s, <<"// if MYCPP\n">>)
             s2 == write_ind(s1, <<>>)
             s3 == AcceptAll(o.body, s2)
         IN  write_ind(s3, <<"// endif MYCPP\n">>)
    \* mylib.PYTHON
    ELSE IF cond.kind = "MemberExpr" /\ cond.name = "PYTHON"
    THEN IF o.else_body.kind # "None"
         THEN LET s1 == write_ind(s, <<"// if not PYTHON\n">>)
                  s2 == write_ind(s1, <<>>)
                  s3 == Accept(o.else_body, s2)
              IN  write_ind(s3, <<"// endif MYCPP\n">>)
         ELSE s
    ELSE LET s1 == write_ind(s, <<"if (">>)
             s2 == AcceptAll(o.expr, s1)
             s3 == write(s2, <<") ">>)
             s4 == AcceptAll(o.body, s3)
         IN  IF o.else_body.kind # "None"
             THEN Accept(o.else_body, write_ind(s4, <<"else ">>))
             ELSE s4

\* visit_try_stmt, the loop over zip(o.types, o.vars, o.handlers) from position i
RECURSIVE try_handlers(_, _, _)
try_handlers(o, i, s) ==
    IF i > Len(o.types) \/ i > Len(o.vars) \/ i > Len(o.handlers) THEN s
    ELSE LET t == o.types[i]
             v == o.vars[i]
             \* Heuristic
             c_type == IF t.kind = "MemberExpr"
                       THEN t.expr.name \o "::" \o t.name \o "*"
                       ELSE t.name \o "*"
             s1 == IF v.kind # "None"
                   THEN write_ind(s, <<"catch (", c_type, " ", v.name, ") ">>)
                   ELSE write_ind(s, <<"catch (", c_type, ") ">>)
         IN  try_handlers(o, i + 1, Accept(o.handlers[i], s1))

visit_try_stmt(o, s) ==
    LET s1 == write_ind(s, <<"try ">>)
        s2 == Accept(o.body, s1)
        s3 == try_handlers(o, 1, s2)
    IN  IF o.else_body.kind # "None" THEN Raise(s3, "AssertionError")
        ELSE IF o.finally_body.kind # "None" THEN Raise(s3, "AssertionError")
        ELSE s3

\* name.endswith('_n'), over the names the modules below import
endswith_n(name) == name \in {"tag_n", "kind_n"}

\* visit_import_from, the first loop: self.imported_names.add(...)
RECURSIVE import_names(_, _)
import_names(names, s) ==
    IF Len(names) = 0 \/ s.exc # "" THEN s
    ELSE LET name == names[1][1]
             alias == names[1][2]
         IN  import_names(Tail(names),
                          [s EXCEPT !.imported_names =
                              @ \cup {IF alias # None THEN alias ELSE name}])

\* a mutant of import_lines: the lines are written in every pass
RECURSIVE import_lines_every_pass(_, _, _)
import_lines_every_pass(o, names, s) ==
    IF Len(names) = 0 THEN s
    ELSE LET name == names[1][1]
             alias == names[1][2]
             s1 == IF Len(o.id) > 1
                   THEN LET mod_name == Last(o.id)
                        IN  IF endswith_n(name)
                               \/ name \in {"hnode_e", "source_e", "assign_op_e"}
                            THEN decl_write_ind(s, <<"namespace ", name, " = ", mod_name,
                                                "::", name, ";\n">>)
                            ELSE decl_write_ind(s, <<"using ", mod_name, "::", name, ";\n">>)
                   ELSE IF alias # None
                        THEN decl_write_ind(s, <<"namespace ", alias, " = ", name, ";\n">>)
                        ELSE s
         IN  import_lines_every_pass(o, Tail(names), s1)


\* visit_import_from, the second loop: the using and namespace lines
RECURSIVE import_lines(_, _, _)
import_lines(o, names, s) ==
    IF Len(names) = 0 THEN s
    ELSE LET name == names[1][1]
             alias == names[1][2]
             s1 == IF Len(o.id) > 1
                   THEN LET mod_name == Last(o.id)
                        IN  IF endswith_n(name)
                               \/ name \in {"hnode_e", "source_e", "assign_op_e"}
                            THEN write_ind(s, <<"namespace ", name, " = ", mod_name,
                                                "::", name, ";\n">>)
                            ELSE write_ind(s, <<"using ", mod_name, "::", name, ";\n">>)
                   ELSE IF alias # None
                        THEN write_ind(s, <<"namespace ", alias, " = ", name, ";\n">>)
                        ELSE s
         IN  import_lines(o, Tail(names), s1)

visit_import_from(o, s) ==
    IF s.decl THEN s  \* No duplicate 'using'
    ELSE IF Join(o.id, ".") \in {"__future__", "typing"} THEN s
    ELSE IF o.names = <<<<"log", None>>>> THEN s
    ELSE IF o.names = <<<<"p_die", None>>>> THEN s
    ELSE import_lines(o, o.names, import_names(o.names, s))

visit_break_stmt(o, s) == write_ind(s, <<"break;\n">>)

visit_continue_stmt(o, s) == write_ind(s, <<"continue;\n">>)

visit_pass_stmt(o, s) == write_ind(s, <<";  // pass\n">>)

\* self.current_class_name = name
set_current_class_name(s, name) ==
    IF s.exc # "" THEN s ELSE [s EXCEPT !.current_class_name = name]

\* visit_class_def: the loop over o.base_type_exprs
RECURSIVE base_class_of(_, _)
base_class_of(base_type_exprs, base_class_name) ==
    IF Len(base_type_exprs) = 0 THEN base_class_name
    ELSE LET b == base_type_exprs[1]
         IN  base_class_of(Tail(base_type_exprs),
                 IF b.kind = "NameExpr" /\ b.name # "object" /\ b.name # "Exception"
                 THEN b.name ELSE base_class_name)

\* visit_class_def, if self.forward_decl
visit_class_forward(o, base_class_name, s) ==
    LET s1 == decl_write_ind(s, <<"class ", o.name, ";\n">>)
        s2 == IF base_class_name # None
              THEN [s1 EXCEPT !.virtual = OnSubclass(@, base_class_name, o.name)]
              ELSE s1
        \* Visit class body so we get method declarations
        s3 == set_current_class_name(s2, o.name)
        s4 == accept_body(o.defs.body, s3)
    IN  set_current_class_name(s4, None)

\* the names of a dict, in sorted() order: names are drawn from NameOrder
NameOrder == <<"a", "b", "f", "x", "y", "z">>

sorted_names(names) == SelectSeq(NameOrder, LAMBDA n : n \in names)

\* visit_class_def, if self.decl: the loop over block.body
RECURSIVE class_decl_body(_, _, _)
class_decl_body(o, stmts, s) ==
    IF Len(stmts) = 0 THEN s
    ELSE
    LET stmt == stmts[1]
        s1 == IF IsDocstring(stmt) THEN s
              \* Constructor is named after class
              ELSE IF stmt.kind = "FuncDef" /\ stmt.name = "__init__"
              THEN LET sa == decl_write_ind(s, <<o.name, "(">>)
                       sb == write_func_args(stmt, 0, TRUE, sa)
                       sc == decl_write(sb, <<");\n">>)
                   IN  \* Must visit these for member vars!
                       Accept(stmt.body, sc)
              ELSE Accept(stmt, s)
    IN  class_decl_body(o, Tail(stmts), s1)

\* the member declarations at the end of the class
RECURSIVE write_members(_, _)
write_members(names, s) ==
    IF Len(names) = 0 THEN s
    ELSE IF CTypeRaises(s.member_vars[names[1]]) THEN Raise(s, "NotImplementedError")
    ELSE write_members(Tail(names),
             decl_write_ind(s, <<get_c_type(s.member_vars[names[1]]), " ", names[1],
                                 ";\n">>))

\* a mutant of member_vars_clear: the table is kept from class to class
member_vars_clear_not(s) == s

\* self.member_vars.clear()
member_vars_clear(s) == [s EXCEPT !.member_vars = <<>>]

\* visit_class_def, if self.decl
visit_class_decl(o, base_class_name, s) ==
    LET s0 == member_vars_clear(s)  \* make a new list
        s1 == decl_write(s0, <<"\n">>)
        s2 == decl_write_ind(s1, <<"class ", o.name>>)  \* block after this
        s3 == IF base_class_name # None
              THEN decl_write(s2, <<" : public ", base_class_name>>) ELSE s2
        s4 == decl_write(s3, <<" {\n">>)
        s5 == decl_write_ind(s4, <<" public:\n">>)
        s6 == add_indent(s5, 1)
        s7 == set_current_class_name(s6, o.name)
        s8 == class_decl_body(o, o.defs.body, s7)
        s9 == set_current_class_name(s8, None)
        \* Now write member defs
        s10 == IF DOMAIN s9.member_vars # {} THEN decl_write(s9, <<"\n">>) ELSE s9
        s11 == write_members(sorted_names(DOMAIN s10.member_vars), s10)
        s12 == add_indent(s11, -1)
    IN  decl_write_ind(s12, <<"};\n">>)

\* a mutant of without_this: the receiver stays among the arguments
without_this_not(args) == args

\* the arguments of the base constructor: Skip 'this'
without_this(args) == IF Len(args) = 0 THEN <<>> ELSE Tail(args)

\* visit_class_def, definitions: the constructor
visit_class_init(o, base_class_name, stmt, s) ==
    LET s1 == write(s, <<"\n">>)
        s2 == write_ind(s1, <<o.name, "::", o.name, "(">>)
        s3 == write_func_args(stmt, 0, TRUE, s2)
        s4 == write(s3, <<") ">>)
        body == stmt.body.body
    IN
    IF Len(body) = 0 THEN Raise(s4, "IndexError")
    ELSE
    LET first_index == IF IsDocstring(body[1]) THEN 1 ELSE 0 IN
    IF first_index >= Len(body) THEN Raise(s4, "IndexError")
    ELSE
    LET first_stmt == body[first_index + 1] IN
    IF /\ first_stmt.kind = "ExpressionStmt"
       /\ first_stmt.expr.kind = "CallExpr"
       /\ first_stmt.expr.callee.kind = "MemberExpr"
       /\ first_stmt.expr.callee.name = "__init__"
    THEN \* TextOutput() : ColorOutput(f), ... {
         LET base_constructor_args == first_stmt.expr.args
             s5 == write(s4, <<": ", base_class_name, "(">>)
             \* Skip 'this'
             s6 == AcceptSep(without_this(base_constructor_args), TRUE, s5)
             s7 == write(s6, <<") {\n">>)
             s8 == add_indent(s7, 1)
             s9 == AcceptAll(SubSeq(body, first_index + 2, Len(body)), s8)
             s10 == add_indent(s9, -1)
         IN  write(s10, <<"}\n">>)
    ELSE \* Normal function body
         Accept(stmt.body, s4)

\* visit_class_def, definitions: the loop over block.body
RECURSIVE class_define_body(_, _, _, _)
class_define_body(o, base_class_name, stmts, s) ==
    IF Len(stmts) = 0 THEN s
    ELSE
    LET stmt == stmts[1]
        s1 == IF stmt.kind = "FuncDef" /\ stmt.name = "__init__"
              THEN visit_class_init(o, base_class_name, stmt, s)
              \* Write body
              ELSE IF stmt.kind = "FuncDef" THEN Accept(stmt, s)
              ELSE s
    IN  class_define_body(o, base_class_name, Tail(stmts), s1)

visit_class_def(o, s) ==
    LET base_class_name == base_class_of(o.base_type_exprs, None) IN
    \* Forward declare types because they may be used in prototypes
    IF s.forward_decl THEN visit_class_forward(o, base_class_name, s)
    ELSE IF s.decl THEN visit_class_decl(o, base_class_name, s)
    ELSE LET s1 == set_current_class_name(s, o.name)
             s2 == class_define_body(o, base_class_name, o.defs.body, s1)
         IN  \* Stop prefixing functions with class
             set_current_class_name(s2, None)

\* Generate.accept: node.accept(self).  Nothing in the pass raises
\* UnsupportedException, so every exception leaves accept.
Accept(node, s) ==
    IF s.exc # "" THEN s
    ELSE CASE node.kind = "IntExpr" -> visit_int_expr(node, s)
           [] node.kind = "StrExpr" -> visit_str_expr(node, s)
           [] node.kind = "NameExpr" -> visit_name_expr(node, s)
           [] node.kind = "MemberExpr" -> visit_member_expr(node, s)
           [] node.kind = "CallExpr" -> visit_call_expr(node, s)
           [] node.kind = "OpExpr" -> visit_op_expr(node, s)
           [] node.kind = "ComparisonExpr" -> visit_comparison_expr(node, s)
           [] node.kind = "TupleExpr" -> visit_tuple_expr(node, s)
           [] node.kind = "ExpressionStmt" -> visit_expression_stmt(node, s)
           [] node.kind = "AssignmentStmt" -> visit_assignment_stmt(node, s)
           [] node.kind = "ForStmt" -> visit_for_stmt(node, s)
           [] node.kind = "IfStmt" -> visit_if_stmt(node, s)
           [] node.kind = "FuncDef" -> visit_func_def(node, s)
           [] node.kind = "ClassDef" -> visit_class_def(node, s)
           [] node.kind = "Block" -> visit_block(node, s)
           [] node.kind = "BreakStmt" -> visit_break_stmt(node, s)
           [] node.kind = "ContinueStmt" -> visit_continue_stmt(node, s)
           [] node.kind = "PassStmt" -> visit_pass_stmt(node, s)
           [] node.kind = "IndexExpr" -> visit_index_expr(node, s)
           [] node.kind = "SliceExpr" -> visit_slice_expr(node, s)
           [] node.kind = "TryStmt" -> visit_try_stmt(node, s)
           [] node.kind = "ImportFrom" -> visit_import_from(node, s)

-----------------------------------------------------------------------------
(* visit_mypy_file, one step per node of o.defs, and the three instances *)

MypyFile(parts, defs) == [parts |-> parts, defs |-> defs]

\* the modules whose contents are all built-in primitives
SkippedModules ==
    {"__future__", "sys", "types", "typing", "abc", "_ast", "ast", "_weakrefset",
     "collections", "cStringIO", "re", "builtins"}

\* the comment of the namespace block
pass_comment(s) ==
    IF s.forward_decl THEN "forward declare" ELSE IF s.decl THEN "declare" ELSE "define"

\* Virtual.__init__
NewVirtual == [methods |-> {}, subclasses |-> {}]

\* the Generate instance of a pass, as the driver constructs it
GenerateFor(p, virt, lvars) == NewGenerate(virt, lvars, p = "decl", p = "forward")

NextPassOf(p) == IF p = "forward" THEN "decl" ELSE "define"

NoRun == [pc |-> "idle", i |-> 0, pos |-> 0, k |-> 0, n |-> 0]

\* crash.catch_errors: an exception that leaves accept ends the translation
\* of the module. accept itself handles UnsupportedException only, which no
\* statement of the visitor raises.
catch_errors(s) == s.exc # ""

\* an instance constructed for pass p, before visit_mypy_file
StartAt(modules, passes) ==
    /\ module \in modules
    /\ pass \in passes
    /\ pc = "begin"
    /\ idx = 1
    /\ g = GenerateFor(pass, NewVirtual, <<>>)
    /\ out = [forward |-> <<>>, decl |-> <<>>, define |-> <<>>]
    /\ run = NoRun

\* the state after the construction of the forward-declare instance
Start(modules) ==
    /\ module \in modules
    /\ pass = "forward"
    /\ pc = "begin"
    /\ idx = 1
    /\ g = GenerateFor("forward", NewVirtual, <<>>)
    /\ out = [forward |-> <<>>, decl |-> <<>>, define |-> <<>>]
    /\ run = NoRun

\* visit_mypy_file up to the loop over o.defs
FileBegin ==
    /\ pc = "begin"
    /\ IF Join(module.parts, ".") \in SkippedModules
       THEN /\ pc' = "ended"
            /\ UNCHANGED <<g, idx>>
       ELSE /\ LET s1 == decl_write_ind(g, <<"namespace ", Last(module.parts), " {  // ",
                                             pass_comment(g), "\n">>)
               IN  g' = IF g.forward_decl THEN add_indent(s1, 1) ELSE s1
            /\ idx' = 1
            /\ pc' = "defs"
    /\ UNCHANGED <<module, pass, out, run>>

\* one iteration of the loop over o.defs
VisitDef ==
    /\ pc = "defs"
    /\ idx <= Len(module.defs)
    /\ LET node == module.defs[idx]
           \* skip module docstring
           s1 == IF IsDocstring(node) THEN g ELSE Accept(node, g)
       IN  /\ g' = s1
           /\ pc' = IF catch_errors(s1) THEN "crashed" ELSE "defs"
    /\ idx' = idx + 1
    /\ UNCHANGED <<module, pass, out, run>>

\* visit_mypy_file after the loop over o.defs
FileEnd ==
    /\ pc = "defs"
    /\ idx > Len(module.defs)
    /\ LET \* Write fmtX() functions inside the namespace.
           s1 == IF g.decl
                 THEN [decl_write(g, Pieces(g.fmt_funcs)) EXCEPT !.fmt_funcs = <<>>]
                 ELSE g
           s2 == IF g.forward_decl THEN add_indent(s1, -1) ELSE s1
           s3 == decl_write(s2, <<"\n">>)
           s4 == decl_write_ind(s3, <<"}  // ", pass_comment(g), " namespace ",
                                      Last(module.parts), "\n">>)
           s5 == decl_write(s4, <<"\n">>)
       IN  /\ g' = s5
           /\ out' = [out EXCEPT ![pass] = s5.f]
    /\ pc' = "ended"
    /\ UNCHANGED <<module, pass, idx, run>>

\* the driver constructs the instance of the next pass over the same module
NextPass ==
    /\ pc = "ended"
    /\ pass # "define"
    /\ pass' = NextPassOf(pass)
    /\ g' = GenerateFor(NextPassOf(pass), g.virtual, g.local_vars)
    /\ pc' = "begin"
    /\ idx' = 1
    /\ UNCHANGED <<module, out, run>>

Next == FileBegin \/ VisitDef \/ FileEnd \/ NextPass

-----------------------------------------------------------------------------
(* Modules of classes: each class has at most one base and a few methods *)

MaxClasses == 2

ClassNames == <<"A", "B", "C">>

MethodSets == {<<>>, <<"m">>, <<"m", "n">>, <<"__init__", "m">>, <<"__repr__", "n">>}

Method(class, name) ==
    FuncDef(class \o "." \o name, name, <<"self">>, <<ClassT("m1", class)>>, NoneTyp,
            Block(<<PassStmt>>))

\* the base of the i-th class: none, a class of another module, an earlier class
BaseChoices(i) ==
    {<<>>, <<NameExpr("Ext", AnyType)>>}
        \cup {<<NameExpr(ClassNames[j], AnyType)>> : j \in 1..(i - 1)}

ClassDefsAt(i) ==
    {ClassDef(ClassNames[i], b,
              Block([k \in 1..Len(ms) |-> Method(ClassNames[i], ms[k])])) :
        b \in BaseChoices(i), ms \in MethodSets}

RECURSIVE ClassSeqs(_)
ClassSeqs(n) ==
    IF n = 0 THEN {<<>>}
    ELSE {Append(q, c) : q \in ClassSeqs(n - 1), c \in ClassDefsAt(n)}

ClassModules == {MypyFile(<<"pkg", "m1">>, defs) : defs \in ClassSeqs(MaxClasses)}

InitClasses == Start(ClassModules)

SpecClasses == InitClasses /\ [][Next]_vars

\* the prototypes in the text of the declare pass: (class, method, prefix)
RECURSIVE Protos(_, _, _)
Protos(f, i, cur) ==
    IF i > Len(f) THEN {}
    ELSE LET w == f[i] IN
         IF Len(w) = 3 /\ w[2] = "class " THEN Protos(f, i + 1, w[3])
         ELSE IF Len(w) = 6 /\ w[6] = "(" /\ w[4] = " "
         THEN {<<cur, w[5], w[2]>>} \cup Protos(f, i + 1, cur)
         ELSE Protos(f, i + 1, cur)

MethodNamesOf(classdef) ==
    {classdef.defs.body[k].name : k \in 1..Len(classdef.defs.body)}

\* some class of the module names class c as its base and defines method m
Overridden(c, m) ==
    \E i \in 1..Len(module.defs) :
        LET d == module.defs[i] IN
        /\ d.kind = "ClassDef"
        /\ Len(d.base_type_exprs) = 1
        /\ d.base_type_exprs[1].name = c
        /\ m \in MethodNamesOf(d)

\* the methods whose prototype visit_func_def writes
ProtoMethods ==
    UNION {{<<module.defs[i].name, m>> :
               m \in MethodNamesOf(module.defs[i]) \ {"__init__", "__repr__"}} :
           i \in {j \in 1..Len(module.defs) : module.defs[j].kind = "ClassDef"}}

\* C1: in the declare pass the prototype of method m of class A carries the
\* 'virtual ' prefix exactly when a class that names A as its base defines m
\* too (what the forward-declare pass registered); every method has its
\* prototype when the pass has ended.
C1_VirtualIffOverridden ==
    pass = "decl" =>
        /\ \A p \in Protos(g.f, 1, None) :
              /\ p[3] \in {"virtual ", ""}
              /\ (p[3] = "virtual ") <=> Overridden(p[1], p[2])
        /\ pc = "ended" =>
              {<<p[1], p[2]>> : p \in Protos(g.f, 1, None)} = ProtoMethods

\* a base with an overridden method m and a method n that is not overridden
C1_Witness ==
    /\ pass = "decl"
    /\ pc = "ended"
    /\ <<"A", "m", "virtual ">> \in Protos(g.f, 1, None)
    /\ <<"A", "n", "">> \in Protos(g.f, 1, None)
    /\ <<"B", "m", "">> \in Protos(g.f, 1, None)

-----------------------------------------------------------------------------
(* Modules of one function or one method whose body assigns local variables *)

MaxStmts == 2

IntPairT == TupleType(<<StrT, IntT>>)

\* a = 1;  b = s;  x = 2;  b, a = t;  for i, y in enumerate(items): pass
LocalStmts ==
    {AssignmentStmt(NameExpr("a", IntT), IntExpr(1)),
     AssignmentStmt(NameExpr("b", StrT), NameExpr("s", StrT)),
     AssignmentStmt(NameExpr("x", IntT), IntExpr(2)),
     AssignmentStmt(TupleExpr(<<NameExpr("b", StrT), NameExpr("a", IntT)>>, IntPairT),
                    NameExpr("t", IntPairT)),
     ForStmt(TupleExpr(<<NameExpr("i", IntT), NameExpr("y", StrT)>>,
                       TupleType(<<IntT, StrT>>)),
             CallExpr(NameExpr("enumerate", AnyType), <<NameExpr("items", ListT(StrT))>>,
                      AnyType),
             Block(<<PassStmt>>), NoNode, TupleType(<<IntT, StrT>>))}

RECURSIVE StmtSeqs(_, _)
StmtSeqs(pool, n) ==
    IF n = 0 THEN {<<>>}
    ELSE {Append(q, st) : q \in StmtSeqs(pool, n - 1), st \in pool}

Bodies(pool, max) == UNION {StmtSeqs(pool, n) : n \in 1..max}

ParamChoices == {<<>>, <<"x">>, <<"a", "x">>}

FuncOf(params, body) ==
    FuncDef("f", "f", params, [i \in 1..Len(params) |-> IntT], NoneTyp, Block(body))

MethodOf(params, body) ==
    ClassDef("K", <<>>,
             Block(<<FuncDef("K.f", "f", <<"self">> \o params,
                             <<ClassT("m1", "K")>> \o [i \in 1..Len(params) |-> IntT],
                             NoneTyp, Block(body))>>))

LocalModules ==
    {MypyFile(<<"pkg", "m1">>, <<FuncOf(ps, body)>>) :
        ps \in ParamChoices, body \in Bodies(LocalStmts, MaxStmts)}
    \cup {MypyFile(<<"pkg", "m1">>, <<MethodOf(ps, body)>>) :
        ps \in ParamChoices, body \in Bodies(LocalStmts, MaxStmts)}

InitLocals == Start(LocalModules)

SpecLocals == InitLocals /\ [][Next]_vars

\* the function node of a module of LocalModules
TheFunc ==
    IF module.defs[1].kind = "FuncDef" THEN module.defs[1]
    ELSE module.defs[1].defs.body[1]

\* a write of the form '<indent><c_type> <name>;\n'
IsVarDecl(w) == Len(w) = 5 /\ w[3] = " " /\ w[5] = ";\n"

\* the entries of a recorded list that are to be declared: not a parameter of
\* the function, and the first entry of their name
ToDeclare(list, params) ==
    LET keep(i) == /\ \A k \in 1..Len(params) : params[k] # list[i][1]
                   /\ \A j \in 1..(i - 1) : list[j][1] # list[i][1]
        kept == {i \in 1..Len(list) : keep(i)}
        \* the position in list of the n-th kept entry
        nth(n) == CHOOSE i \in kept : Cardinality({j \in kept : j <= i}) = n
    IN  [n \in 1..Cardinality(kept) |-> list[nth(n)]]

\* the position of the first write '{\n', 0 when there is none
FirstBrace(f) ==
    IF \E i \in 1..Len(f) : f[i] = <<"{\n">>
    THEN CHOOSE i \in 1..Len(f) : f[i] = <<"{\n">> /\ \A j \in 1..(i - 1) : f[j] # <<"{\n">>
    ELSE 0

\* C2: once the define pass has visited function f, the variable declarations
\* in its text are the writes that follow the '{' of f's body, one for each
\* entry that the declare pass recorded under f, in the recorded order, without
\* the names of f's parameters and each name once.
C2_PreambleIsRecordedTable ==
    (pass = "define" /\ pc \in {"defs", "ended"} /\ idx > 1) =>
        LET want == ToDeclare(g.local_vars[TheFunc.id], TheFunc.arguments)
            p == FirstBrace(g.f)
        IN  /\ p > 0
            /\ Len(g.f) >= p + Len(want)
            /\ \A n \in 1..Len(want) :
                  /\ IsVarDecl(g.f[p + n])
                  /\ g.f[p + n][4] = want[n][1]
                  /\ g.f[p + n][2] = want[n][2]
            /\ \A i \in 1..Len(g.f) :
                  IsVarDecl(g.f[i]) => i \in (p + 1)..(p + Len(want))

\* the table of f holds the name of a parameter and a name twice, and a
\* declaration is written
C2_Witness ==
    /\ pass = "define"
    /\ pc = "ended"
    /\ LET list == g.local_vars[TheFunc.id] IN
       /\ \E i, j \in 1..Len(list) : i < j /\ list[i][1] = list[j][1]
       /\ \E i \in 1..Len(list), k \in 1..Len(TheFunc.arguments) :
             list[i][1] = TheFunc.arguments[k]
       /\ Len(ToDeclare(list, TheFunc.arguments)) < Len(list) - 1
    /\ Len(SelectSeq(g.f, IsVarDecl)) >= 1

-----------------------------------------------------------------------------
(* Modules with format expressions in several places *)

MaxFmt == 2

Templates == <<"a%s", "b%s", "c%s">>
TemplateLiterals == <<"a", "b", "c">>
FmtArgs == <<"x", "y", "z">>

\* the i-th format expression:  'a%s' % x
FmtExpr(i) ==
    OpExpr("%", StrExpr(Templates[i], "str" \o IntStr(i)), NameExpr(FmtArgs[i], StrT), StrT)

\* v = 'a%s' % x
FmtStmt(i) == AssignmentStmt(NameExpr("v", StrT), FmtExpr(i))

\* p, q = t
UnpackStmt ==
    AssignmentStmt(TupleExpr(<<NameExpr("p", StrT), NameExpr("q", IntT)>>, IntPairT),
                   NameExpr("t", IntPairT))

\* where the statement stands: at module level, in a function, in a method,
\* or in the body of a class
Places == {"toplevel", "func", "method", "classlevel"}

Placed(place, i, stmts) ==
    CASE place = "toplevel" -> stmts
      [] place = "func" ->
           <<FuncDef("f" \o IntStr(i), "f" \o IntStr(i), <<>>, <<>>, NoneTyp, Block(stmts))>>
      [] place = "method" ->
           <<ClassDef("K" \o IntStr(i), <<>>,
                      Block(<<FuncDef("K" \o IntStr(i) \o ".f", "f", <<"self">>,
                                      <<ClassT("m1", "K" \o IntStr(i))>>, NoneTyp,
                                      Block(stmts))>>))>>
      [] place = "classlevel" ->
           <<ClassDef("K" \o IntStr(i), <<>>, Block(stmts))>>

RECURSIVE FmtDefs(_)
FmtDefs(n) ==
    IF n = 0 THEN {<<>>}
    ELSE {q \o Placed(place, n, pre \o <<FmtStmt(n)>>) :
            q \in FmtDefs(n - 1), place \in Places, pre \in {<<>>, <<UnpackStmt>>}}

FmtModules == {MypyFile(<<"pkg", "m1">>, defs) : defs \in FmtDefs(MaxFmt)}

InitFmt == Start(FmtModules)

SpecFmt == InitFmt /\ [][Next]_vars

\* the places of piece x in a sequence of pieces
Places_of(ps, x) == {j \in 1..Len(ps) : ps[j] = x}

\* the names of the helper functions in the text of the declare pass, in order
HelperNames(ps) ==
    LET at == Places_of(ps, "Str* ")
        nth(n) == CHOOSE j \in at : Cardinality({k \in at : k <= j}) = n
    IN  [n \in 1..Cardinality(at) |-> ps[nth(n) + 1]]

\* the names of the helpers that write the literal lit, in the declare text
HelpersWriting(ps, lit) ==
    {ps[h + 1] : h \in {h \in Places_of(ps, "Str* ") :
        \E j \in Places_of(ps, "  gBuf.write_const(") :
            /\ j > h
            /\ ps[j + 1] = json_dumps(lit)
            /\ \A h2 \in Places_of(ps, "Str* ") : h2 <= h \/ h2 > j}}

\* the helper names of the call sites with argument arg, in the define text
CallSitesWith(f, arg) ==
    {f[i][1] : i \in {i \in 1..(Len(f) - 1) :
        Len(f[i]) = 2 /\ f[i][2] = "(" /\ f[i + 1] = <<arg>>}}

\* the format expressions of the module whose call site the define pass writes
WrittenFmt == {i \in 1..MaxFmt : CallSitesWith(out.define, FmtArgs[i]) # {}}

\* C3: the helpers of distinct format expressions have distinct names, and
\* the call site of each expression names the helper generated for it.
C3_CallSiteNamesOwnHelper ==
    (pass = "define" /\ pc = "ended") =>
        LET ps == Pieces(out.decl)
            names == HelperNames(ps)
        IN  /\ Len(names) = MaxFmt
            /\ \A a, b \in 1..Len(names) : a # b => names[a] # names[b]
            /\ \A i \in WrittenFmt :
                  CallSitesWith(out.define, FmtArgs[i])
                      = HelpersWriting(ps, TemplateLiterals[i])

\* the same, on the modules in which no format expression stands in a class body
NoClassLevel ==
    \A i \in 1..Len(module.defs) :
        module.defs[i].kind = "ClassDef" =>
            \A k \in 1..Len(module.defs[i].defs.body) :
                module.defs[i].defs.body[k].kind = "FuncDef"

C3_HoldsWithoutClassLevel == NoClassLevel => C3_CallSiteNamesOwnHelper

-----------------------------------------------------------------------------
(* Modules with one tuple-target assignment *)

MaxArity == 3

\* a, b, _ and self.m as targets
TupleTargets ==
    {NameExpr("a", IntT), NameExpr("b", StrT), NameExpr("_", IntT),
     MemberExpr(NameExpr("self", AnyType), "m", IntT)}

RECURSIVE TargetSeqs(_)
TargetSeqs(n) ==
    IF n = 0 THEN {<<>>}
    ELSE {Append(q, x) : q \in TargetSeqs(n - 1), x \in TupleTargets}

TupleLvals == UNION {TargetSeqs(n) : n \in 2..MaxArity}

TypeOfTargets(items) == TupleType([i \in 1..Len(items) |-> items[i].type])

\* the right-hand side: a variable or a call
TupleRvalues(type) ==
    {NameExpr("t", type),
     CallExpr(NameExpr("pair_returning_call", CallableType(<<>>, type)), <<>>, type)}

TupleAssignments ==
    {AssignmentStmt(TupleExpr(items, TypeOfTargets(items)), rv) :
        items \in TupleLvals, rv \in UNION {TupleRvalues(TypeOfTargets(i)) : i \in TupleLvals}}

TupleModules ==
    {MypyFile(<<"pkg", "m1">>, Placed(place, 1, <<st>>)) :
        place \in {"toplevel", "func"},
        st \in {a \in TupleAssignments : a.rvalue.type = a.lvalues[1].type}}

InitTuple == Start(TupleModules)

SpecTuple == InitTuple /\ [][Next]_vars

\* the assignment of a module of TupleModules, and the indent it is written at
TheAssignment ==
    IF module.defs[1].kind = "FuncDef" THEN module.defs[1].body.body[1]
    ELSE module.defs[1]

AssignmentIndent == IF module.defs[1].kind = "FuncDef" THEN "  " ELSE ""

\* the writes of the define pass from the declaration of the temporary to the
\* end of the statement list the assignment stands in
AssignmentWrites ==
    LET f == out.define
        p == CHOOSE i \in 1..Len(f) : Len(f[i]) = 5 /\ f[i][3] = " " /\ f[i][5] = " = "
        tail == IF module.defs[1].kind = "FuncDef" THEN 4 ELSE 3
    IN  SubSeq(f, p, Len(f) - tail)

\* the C++ text of a target and of the right-hand side
TargetText(x) == IF x.kind = "NameExpr" THEN x.name ELSE "this->" \o x.name

RvalueText(x) == IF x.kind = "NameExpr" THEN x.name ELSE x.callee.name \o "()"

\* one extraction statement per target that is not '_', with its position
RECURSIVE ExtractionText(_, _, _)
ExtractionText(items, k, ind) ==
    IF k > Len(items) THEN ""
    ELSE (IF items[k].kind = "NameExpr" /\ items[k].name = "_" THEN ""
          ELSE ind \o TargetText(items[k]) \o " = tup0->at" \o IntStr(k - 1) \o "();\n")
         \o ExtractionText(items, k + 1, ind)

NumDecls(f) ==
    Cardinality({i \in 1..Len(f) : Len(f[i]) = 5 /\ f[i][3] = " " /\ f[i][5] = " = "})

\* C4: the define pass writes a tuple-target assignment as one declaration of
\* a temporary that holds the right-hand value, followed by one extraction
\* statement 'target = temp->atK()' for each target that is not '_', K being
\* the position of the target, and by nothing else.
C4_TupleUnpacking ==
    (pass = "define" /\ pc = "ended") =>
        LET items == TheAssignment.lvalues[1].items
            ind == AssignmentIndent
        IN  /\ NumDecls(out.define) = 1
            /\ Text(AssignmentWrites) =
                  ind \o get_c_type(TheAssignment.rvalue.type) \o " tup0 = "
                      \o RvalueText(TheAssignment.rvalue) \o ";\n"
                      \o ExtractionText(items, 1, ind)

\* a, _, b = pair_returning_call() has been written
C4_Witness ==
    /\ pass = "define"
    /\ pc = "ended"
    /\ Len(TheAssignment.lvalues[1].items) = 3
    /\ TheAssignment.lvalues[1].items[2].name = "_"
    /\ TheAssignment.lvalues[1].items[1].name = "a"
    /\ TheAssignment.lvalues[1].items[3].name = "b"
    /\ TheAssignment.rvalue.kind = "CallExpr"
    /\ Text(AssignmentWrites) =
          "Tuple3<int, int, Str*>* tup0 = pair_returning_call();\n"
              \o "a = tup0->at0();\n" \o "b = tup0->at2();\n"

-----------------------------------------------------------------------------
(* Modules with one comparison, written as an expression statement *)

OperandTypes ==
    {StrT, OptionalT(StrT), IntT, OptionalT(IntT),
     ClassT("m1", "K"), OptionalT(ClassT("m1", "K")), NoneTyp}

\* a variable of each type; the absence literal has type None
Operand(name, type) == IF type = NoneTyp THEN NameExpr("None", NoneTyp) ELSE NameExpr(name, type)

ComparisonOperators == {"==", "!=", "is", "is not", "<", "in", "not in"}

Comparisons ==
    {ComparisonExpr(op, Operand("x", tx), Operand("y", ty)) :
        op \in ComparisonOperators, tx \in OperandTypes, ty \in OperandTypes}

ComparisonModules ==
    {MypyFile(<<"pkg", "m1">>, Placed(place, 1, <<ExpressionStmt(c)>>)) :
        place \in {"toplevel", "func"}, c \in Comparisons}

InitComparison == Start(ComparisonModules)

SpecComparison == InitComparison /\ [][Next]_vars

\* the comparison of a module of ComparisonModules
TheComparison ==
    IF module.defs[1].kind = "FuncDef" THEN module.defs[1].body.body[1].expr
    ELSE module.defs[1].expr

\* the text the define pass wrote for the expression: what stands before the
\* last ';' of the output, after the indent of the statement
ExpressionText ==
    LET f == out.define
        q == CHOOSE i \in 1..Len(f) : f[i] = <<";\n">>
        p == CHOOSE i \in 1..q : /\ Len(f[i]) = 1 /\ f[i][1] \in {"", "  "}
                                 /\ \A j \in (i + 1)..q : Len(f[j]) = 0 \/ f[j][1] \notin {"", "  "}
    IN  Text(SubSeq(f, p + 1, q - 1))

OperandText(x) == IF x.name = "None" THEN "nullptr" ELSE x.name

IsStr(t) == t = StrT

IsStrOrOptionalStr(t) == t \in {StrT, OptionalT(StrT)}

Left == TheComparison.operands[1]

Right == TheComparison.operands[2]

Operator == TheComparison.operators[1]

CallOf(helper) == helper \o "(" \o OperandText(Left) \o ", " \o OperandText(Right) \o ")"

Verbatim(op) == OperandText(Left) \o " " \o op \o " " \o OperandText(Right)

Written == pass = "define" /\ pc = "ended"

\* C5: '==' between two operands that are each a string or an optional string
\* is a call of str_equals when both are strings and of maybe_str_equals when
\* one of them is an optional string; '!=' is the same call wrapped in '!(...)'.
C5_StringEqualityHelper ==
    (/\ Written
     /\ Operator \in {"==", "!="}
     /\ IsStrOrOptionalStr(Left.type)
     /\ IsStrOrOptionalStr(Right.type)) =>
        LET call == IF IsStr(Left.type) /\ IsStr(Right.type)
                    THEN CallOf("str_equals") ELSE CallOf("maybe_str_equals")
        IN  ExpressionText = IF Operator = "==" THEN call ELSE "!(" \o call \o ")"

\* x != y with x an optional string and y a string has been written
C5_Witness ==
    /\ Written
    /\ Operator = "!="
    /\ Left.type = OptionalT(StrT)
    /\ Right.type = StrT
    /\ ExpressionText = "!(maybe_str_equals(x, y))"

\* C6: '==' or '!=' with an operand that is neither a string nor an optional
\* string is written as 'left op right', never as a call of a string helper.
C6_OtherEqualityVerbatim ==
    (/\ Written
     /\ Operator \in {"==", "!="}
     /\ ~(IsStrOrOptionalStr(Left.type) /\ IsStrOrOptionalStr(Right.type))) =>
        ExpressionText = Verbatim(Operator)

\* what the code does instead: an operand that is Optional of anything counts
\* as an optional string
IsStrOrAnyOptional(t) == t = StrT \/ (t.k = "UnionType" /\ t.items[2] = NoneTyp)

C6_VerbatimUnlessBothStrOrOptional ==
    (/\ Written
     /\ Operator \in {"==", "!="}
     /\ ~(IsStrOrAnyOptional(Left.type) /\ IsStrOrAnyOptional(Right.type))) =>
        ExpressionText = Verbatim(Operator)

\* C7: 'is' is written as 'left == right' and 'is not' as 'left != right',
\* whatever the types of the operands; no string helper is called.
C7_IdentityIsPointerComparison ==
    (Written /\ Operator \in {"is", "is not"}) =>
        ExpressionText = Verbatim(IF Operator = "is" THEN "==" ELSE "!=")

\* x is not None with x an optional string has been written
C7_Witness ==
    /\ Written
    /\ Operator = "is not"
    /\ Left.type = OptionalT(StrT)
    /\ Right.type = NoneTyp
    /\ ExpressionText = "x != nullptr"

-----------------------------------------------------------------------------
(* Modules with one loop 'for i, x in enumerate(items)', and the run of the
   loop the define pass writes for it *)

MaxBody == 2

MaxItems == 3

\* use(i)
UseCounter ==
    ExpressionStmt(CallExpr(NameExpr("use", CallableType(<<IntT>>, NoneTyp)),
                            <<NameExpr("i", IntT)>>, NoneTyp))

LoopStmts == {PassStmt, ContinueStmt, BreakStmt, UseCounter}

RECURSIVE LoopBodies(_)
LoopBodies(n) ==
    IF n = 0 THEN {<<>>}
    ELSE LoopBodies(n - 1) \cup
         {Append(b, st) : b \in {c \in LoopBodies(n - 1) : Len(c) = n - 1}, st \in LoopStmts}

\* the container: a list of int, a list of str, or a str
Containers == {ListT(IntT), ListT(StrT), StrT}

ItemTypeOf(t) == IF fullname(t) = "builtins.list" THEN t.args[1] ELSE StrT

\* for i, x in enumerate(items): body
EnumerateLoop(container, body) ==
    ForStmt(TupleExpr(<<NameExpr("i", IntT), NameExpr("x", ItemTypeOf(container))>>,
                      TupleType(<<IntT, ItemTypeOf(container)>>)),
            CallExpr(NameExpr("enumerate", AnyType), <<NameExpr("items", container)>>,
                     AnyType),
            Block(body), NoNode, TupleType(<<IntT, ItemTypeOf(container)>>))

EnumerateModules ==
    {MypyFile(<<"pkg", "m1">>, Placed(place, 1, <<EnumerateLoop(c, b)>>)) :
        place \in {"toplevel", "func"}, c \in Containers, b \in LoopBodies(MaxBody)}

InitEnumerate == Start(EnumerateModules)

\* the writes of the define pass that make up the loop: the for header, the
\* end of the header, and the closing brace
ForAt == CHOOSE h \in 1..Len(out.define) :
             Len(out.define[h]) = 4 /\ out.define[h][2] = "for ("

HeaderEnd == CHOOSE e \in ForAt..Len(out.define) :
                 Len(out.define[e]) = 3 /\ out.define[e][1] = "); !it.Done(); it.Next()"

LoopIndent == out.define[ForAt][1]

LoopEnd == CHOOSE c \in HeaderEnd..Len(out.define) : out.define[c] = <<LoopIndent, "}\n">>

\* the write at position p is 'i = 0;'
IsCounterInit(p) ==
    /\ p \in 1..Len(out.define)
    /\ out.define[p] = <<LoopIndent, "i", " = 0;\n">>

\* the write at position p starts a statement of the body of the loop
IsBodyStmt(p) ==
    /\ p \in (HeaderEnd + 1)..LoopEnd
    /\ Len(out.define[p]) >= 1
    /\ out.define[p][1] = LoopIndent \o "  "

\* the statement after position p
NextStmt(p) == CHOOSE q \in (p + 1)..LoopEnd :
                   /\ q = LoopEnd \/ IsBodyStmt(q)
                   /\ \A r \in (p + 1)..(q - 1) : ~IsBodyStmt(r)

\* The run of the written loop over a container of n items, by the meaning of
\* a C++ for statement: 'continue' goes to the third clause of the header,
\* 'break' leaves the loop. A counter that no statement has set holds any value.
RunStart ==
    /\ pass = "define"
    /\ pc = "ended"
    /\ run.pc = "idle"
    /\ \E n \in 0..MaxItems, v \in 0..MaxItems :
          run' = [pc |-> "init", i |-> v, pos |-> ForAt - 1, k |-> 0, n |-> n]
    /\ UNCHANGED <<module, pass, pc, idx, g, out>>

\* the statement before the loop
RunInit ==
    /\ run.pc = "init"
    /\ run' = [run EXCEPT !.pc = "test",
                          !.i = IF IsCounterInit(run.pos) THEN 0 ELSE @,
                          !.pos = ForAt]
    /\ UNCHANGED <<module, pass, pc, idx, g, out>>

\* !it.Done(), and the binding of the item at the head of the body
RunTest ==
    /\ run.pc = "test"
    /\ run' = IF run.k < run.n
              THEN [run EXCEPT !.pc = "body", !.k = @ + 1, !.pos = NextStmt(HeaderEnd)]
              ELSE [run EXCEPT !.pc = "done"]
    /\ UNCHANGED <<module, pass, pc, idx, g, out>>

\* one statement of the body
RunStmt ==
    /\ run.pc = "body"
    /\ LET w == out.define[run.pos]
       IN  run' = CASE run.pos = LoopEnd -> [run EXCEPT !.pc = "update"]
                    [] Len(w) = 2 /\ w[2] = "continue;\n" -> [run EXCEPT !.pc = "update"]
                    [] Len(w) = 2 /\ w[2] = "break;\n" -> [run EXCEPT !.pc = "done"]
                    [] OTHER -> [run EXCEPT !.pos = NextStmt(run.pos)]
    /\ UNCHANGED <<module, pass, pc, idx, g, out>>

\* it.Next() and what follows it in the header
RunUpdate ==
    /\ run.pc = "update"
    /\ run' = [run EXCEPT !.pc = "test",
                          !.i = IF out.define[HeaderEnd][2] = ", ++i" THEN @ + 1 ELSE @]
    /\ UNCHANGED <<module, pass, pc, idx, g, out>>

NextRun == Next \/ RunStart \/ RunInit \/ RunTest \/ RunStmt \/ RunUpdate

SpecEnumerate == InitEnumerate /\ [][NextRun]_vars

\* the body of the loop of a module of EnumerateModules
TheLoop ==
    IF module.defs[1].kind = "FuncDef" THEN module.defs[1].body.body[1]
    ELSE module.defs[1]

\* C8: the written loop sets the counter to 0 once, in the statement before
\* the loop, and increments it in the header after every iteration, so that
\* the body of the k-th iteration observes i = k - 1, also after an iteration
\* that ended with 'continue'.
C8_EnumerateCounter ==
    /\ (pass = "define" /\ pc = "ended") =>
          /\ IsCounterInit(ForAt - 1)
          /\ Cardinality({p \in 1..Len(out.define) : IsCounterInit(p)}) = 1
          /\ out.define[HeaderEnd][2] = ", ++i"
    /\ run.pc = "body" => (run.k \in 1..run.n /\ run.i = run.k - 1)

\* the third iteration of a loop whose body is 'use(i); continue' observes 2
C8_Witness ==
    /\ run.pc = "body"
    /\ run.n = 3
    /\ run.k = 3
    /\ run.i = 2
    /\ TheLoop.body.body = <<UseCounter, ContinueStmt>>
    /\ out.define[run.pos][1] = LoopIndent \o "  "
    /\ out.define[run.pos + 1] = <<"use">>

-----------------------------------------------------------------------------
(* Modules with one loop 'for i in xrange(...)' or 'for i in range(...)'
   whose body logs the index *)

MaxRange == 3

\* the arguments of the call: literals and the variable n
RangeOperands == {IntExpr(v) : v \in 0..MaxRange} \cup {NameExpr("n", IntT)}

RangeArgs == {<<e>> : e \in RangeOperands} \cup
             {<<b, e>> : b \in RangeOperands, e \in RangeOperands}

XRangeT == Instance(<<"builtins", "xrange">>, <<>>, <<"builtins.object">>)

\* range() is a list of int, xrange() an xrange object
RangeCall(name, args) ==
    CallExpr(NameExpr(name, AnyType), args, IF name = "range" THEN ListT(IntT) ELSE XRangeT)

LogT == CallableType(<<StrT, AnyType>>, NoneTyp)

\* log("%d", i)
LogPrintf ==
    ExpressionStmt(CallExpr(NameExpr("log", LogT),
                            <<StrExpr("%d", "str0"), NameExpr("i", IntT)>>, NoneTyp))

\* log("%d" % i)
LogFormatted ==
    ExpressionStmt(CallExpr(NameExpr("log", LogT),
                            <<OpExpr("%", StrExpr("%d", "str0"), NameExpr("i", IntT), StrT)>>,
                            NoneTyp))

RangeBodies == {<<LogPrintf>>, <<LogFormatted>>, <<PassStmt>>}

RangeLoop(name, args, body) ==
    ForStmt(NameExpr("i", IntT), RangeCall(name, args), Block(body), NoNode, IntT)

RangeModules ==
    {MypyFile(<<"pkg", "m1">>, Placed(place, 1, <<RangeLoop(name, args, body)>>)) :
        place \in {"toplevel", "func"}, name \in {"xrange", "range"},
        args \in RangeArgs, body \in RangeBodies}

InitRange == Start(RangeModules)

SpecRange == InitRange /\ [][Next]_vars

\* the text of the header of the loop in the define text: from 'for (' up to
\* the opening brace of the body
LoopHeaderText ==
    LET f == out.define
        h == CHOOSE i \in 1..Len(f) : Len(f[i]) >= 2 /\ f[i][2] \in {"for (int ", "for ("}
        e == CHOOSE i \in h..Len(f) :
                 /\ Last(f[i]) \in {") ", ") {\n"}
                 /\ \A j \in h..(i - 1) : Last(f[j]) \notin {") ", ") {\n"}
    IN  Text(SubSeq(f, h, e))

RangeArgText(x) == IF x.kind = "IntExpr" THEN IntStr(x.value) ELSE x.name

\* for (int i = b; i < e; ++i)
CountingHeader(ind, args) ==
    ind \o "for (int i = " \o (IF Len(args) = 1 THEN "0" ELSE RangeArgText(args[1]))
        \o "; i < " \o RangeArgText(args[Len(args)]) \o "; ++i) "

IsCountingLoop == LoopHeaderText = CountingHeader(AssignmentIndent, TheLoop.expr.args)

\* C9 as stated: a loop over range(e) or range(b, e) is written as a counting
\* loop from 0 (or b) while the index is below e.
C9_RangeIsCountingLoop ==
    (Written /\ TheLoop.expr.callee.name = "range") => IsCountingLoop

\* C9: a loop over xrange(e) is written with the header
\* 'for (int i = 0; i < e; ++i)', a loop over xrange(b, e) with the header
\* 'for (int i = b; i < e; ++i)', followed by the block of the body.
C9_XRangeIsCountingLoop ==
    (Written /\ TheLoop.expr.callee.name = "xrange") =>
        /\ IsCountingLoop
        /\ \E p \in 1..Len(out.define) :
              out.define[p] = <<"; ++", "i", ") ">> /\ out.define[p + 1] = <<"{\n">>
        /\ \A p \in 1..Len(out.define) : "it.Value();\n" \notin {Last(out.define[p])}

\* for i in xrange(1, n) has been written in a function
C9_Witness ==
    /\ Written
    /\ TheLoop.expr.callee.name = "xrange"
    /\ TheLoop.expr.args = <<IntExpr(1), NameExpr("n", IntT)>>
    /\ LoopHeaderText = "  for (int i = 1; i < n; ++i) "
    /\ TheLoop.body.body = <<LogFormatted>>

\* the text of the log statement: from its indent to its ';'
LogStatementText ==
    LET f == out.define
        q == CHOOSE i \in 1..Len(f) : f[i] = <<";\n">>
        p == CHOOSE i \in 1..q : /\ f[i] \in {<<IndStr(1)>>, <<IndStr(2)>>}
                                 /\ \A j \in (i + 1)..q : f[j] \notin {<<IndStr(1)>>, <<IndStr(2)>>}
    IN  Text(SubSeq(f, p + 1, q))

\* C10 as stated: for log("%d", i) the declare pass generates a format helper
\* and the define pass calls it with i.
C10_LogCallsFormatHelper ==
    (Written /\ TheLoop.body.body = <<LogPrintf>>) =>
        /\ Len(HelperNames(Pieces(out.decl))) = 1
        /\ CallSitesWith(out.define, "i") # {}

\* C10: log("%d", i) is written as the call log(str0, i) of the logging
\* function with the constant of the template, and no helper is generated;
\* the helper is generated for a '%' expression: for log("%d" % i) the declare
\* pass writes 'Str* fmt0(int a0) {' and the define pass writes log(fmt0(i)).
C10_LogIsPrintfStyle ==
    /\ (Written /\ TheLoop.body.body = <<LogPrintf>>) =>
          /\ HelperNames(Pieces(out.decl)) = <<>>
          /\ CallSitesWith(out.define, "i") = {}
          /\ LogStatementText = "log(str0, i);\n"
    /\ (Written /\ TheLoop.body.body = <<LogFormatted>>) =>
          /\ HelperNames(Pieces(out.decl)) = <<"fmt0">>
          /\ \E p \in 1..(Len(Pieces(out.decl)) - 5) :
                Flat(SubSeq(Pieces(out.decl), p, p + 5)) = "Str* fmt0(int a0) {\n"
          /\ CallSitesWith(out.define, "i") = {"fmt0"}
          /\ LogStatementText = "log(fmt0(i));\n"

\* log("%d", i) has been written in the body of 'for i in xrange(3)'
C10_Witness ==
    /\ Written
    /\ TheLoop.body.body = <<LogPrintf>>
    /\ TheLoop.expr.callee.name = "xrange"
    /\ TheLoop.expr.args = <<IntExpr(3)>>
    /\ LogStatementText = "log(str0, i);\n"
    /\ HelperNames(Pieces(out.decl)) = <<>>

-----------------------------------------------------------------------------
(* Modules of statements some of which use a construct the visitor refuses *)

MaxDefs == 3

\* y = x[0:2:1], a slice with a stride, and y = x[0:2]
SliceStmt(stride) ==
    AssignmentStmt(NameExpr("y", StrT),
                   IndexExpr(NameExpr("x", StrT),
                             SliceExpr(IntExpr(0), IntExpr(2), stride), StrT))

\* try: pass / except E: pass, with or without else: and finally:
TryWith(else_body, finally_body) ==
    TryStmt(Block(<<PassStmt>>), <<NameExpr("E", AnyType)>>, <<NoNode>>,
            <<Block(<<PassStmt>>)>>, else_body, finally_body)

\* a union that is not Optional[T]
MalformedUnion == UnionType(<<IntT, StrT, NoneTyp>>)

\* u = w with u of a malformed union type
MalformedUnionStmt == AssignmentStmt(NameExpr("u", MalformedUnion), NameExpr("w", StrT))

\* v = w
PlainStmt == AssignmentStmt(NameExpr("v", StrT), NameExpr("w", StrT))

UnsupportedStmts ==
    {SliceStmt(IntExpr(1)),
     TryWith(Block(<<PassStmt>>), NoNode),
     TryWith(NoNode, Block(<<PassStmt>>)),
     MalformedUnionStmt}

SupportedStmts == {SliceStmt(NoNode), TryWith(NoNode, NoNode), PlainStmt}

RECURSIVE DefSeqs(_)
DefSeqs(n) ==
    IF n = 0 THEN {<<>>}
    ELSE DefSeqs(n - 1) \cup
         {Append(q, st) : q \in {r \in DefSeqs(n - 1) : Len(r) = n - 1},
                          st \in UnsupportedStmts \cup SupportedStmts}

UnsupportedModules == {MypyFile(<<"pkg", "m1">>, defs) : defs \in DefSeqs(MaxDefs) \ {<<>>}}

\* each pass over the module, taken by itself
InitUnsupported == StartAt(UnsupportedModules, {"forward", "decl", "define"})

SpecUnsupported == InitUnsupported /\ [][Next]_vars

\* C11: a statement that uses an unsupported construct does not end the pass:
\* the pass is never stopped with statements of the module left to visit.
C11_FailureDoesNotAbortPass == ~(pc = "crashed" /\ idx <= Len(module.defs))

\* C12: the step that visits a failing statement leaves the output as it was
\* before the statement.
C12_FailedStatementWritesNothing == [][pc' = "crashed" => g'.f = g.f]_vars

-----------------------------------------------------------------------------
(* Modules with one assignment u = w whose target has a union type *)

MaxArms == 3

\* Type[K], a type get_c_type has no case for
TypeTypeK == [k |-> "TypeType"]

UnionArms == {IntT, StrT, NoneTyp, ClassT("m1", "K"), ListT(IntT), TypeTypeK}

RECURSIVE ArmSeqs(_)
ArmSeqs(n) ==
    IF n = 0 THEN {<<>>}
    ELSE ArmSeqs(n - 1) \cup
         {Append(q, a) : q \in {r \in ArmSeqs(n - 1) : Len(r) = n - 1}, a \in UnionArms}

UnionModules ==
    {MypyFile(<<"pkg", "m1">>,
              <<AssignmentStmt(NameExpr("u", UnionType(arms)), NameExpr("w", AnyType))>>) :
        arms \in ArmSeqs(MaxArms) \ {<<>>}}

InitUnion == Start(UnionModules)

SpecUnion == InitUnion /\ [][Next]_vars

\* the arms of the union of a module of UnionModules
TheArms == module.defs[1].lvalues[1].type.items

\* the lowering of each arm, written out; Type[K] has none
ArmText(a) ==
    CASE a = IntT -> "int"
      [] a = StrT -> "Str*"
      [] a = NoneTyp -> "void"
      [] a = ClassT("m1", "K") -> "m1::K*"
      [] a = ListT(IntT) -> "List<int>*"
      [] OTHER -> "?"

IsOptionalShape(arms) == Len(arms) = 2 /\ arms[2] = NoneTyp

\* the assignment has been visited without an exception
UnionLowered == pc \in {"defs", "ended"} /\ idx > 1

\* C13: a union lowers exactly when it has two arms of which the second is
\* None (and its first arm lowers), and then to what the first arm lowers to;
\* any other union raises and gives no type string.
C13_UnionLowersIffOptional ==
    /\ UnionLowered => (IsOptionalShape(TheArms) /\ TheArms[1] # TypeTypeK)
    /\ pc = "crashed" =>
          /\ ~IsOptionalShape(TheArms) \/ TheArms[1] = TypeTypeK
          /\ g.exc = "NotImplementedError"
          /\ Len(g.f) <= 1
    /\ (pass = "define" /\ pc = "ended") =>
          Text(SubSeq(out.define, 2, 4)) = ArmText(TheArms[1]) \o " u = w;\n"

\* u: Optional[K] has been written as 'm1::K* u = w;'
C13_Witness ==
    /\ pass = "define"
    /\ pc = "ended"
    /\ TheArms = <<ClassT("m1", "K"), NoneTyp>>
    /\ Text(SubSeq(out.define, 2, 4)) = "m1::K* u = w;\n"

-----------------------------------------------------------------------------
(* Modules with one assignment u = w whose target has a class type, the class
   standing at some depth below a root *)

MaxDepth == 2

SimpleObj == "asdl.pybase.SimpleObj"

\* the chains V0 <- V1 <- ... below SimpleObj and P0 <- P1 <- ... below object
ChainClasses == {<<stem, d>> : stem \in {"V", "P"}, d \in 0..MaxDepth}

ChainName(c) == c[1] \o IntStr(c[2])

\* the fullname of the one direct base of the class
DirectBase(ns, c) ==
    IF c[2] > 0 THEN ns \o "." \o ChainName(<<c[1], c[2] - 1>>)
    ELSE IF c[1] = "V" THEN SimpleObj ELSE "builtins.object"

\* the type of an instance of the class, as the front-end hands it over:
\* t.type.bases are the direct bases
ChainT(ns, c) == Instance(<<ns, ChainName(c)>>, <<>>, <<DirectBase(ns, c)>>)

ChainModules ==
    {MypyFile(<<"pkg", "m1">>,
              Placed(place, 1, <<AssignmentStmt(NameExpr("u", ChainT(ns, c)),
                                                NameExpr("w", AnyType))>>)) :
        place \in {"toplevel", "func"}, ns \in {"m1", "expr_asdl"}, c \in ChainClasses}

InitChain == Start(ChainModules)

SpecChain == InitChain /\ [][Next]_vars

\* the type of u in a module of ChainModules
TheClassType == TheAssignment.lvalues[1].type

\* the root is in the chain of bases of a class of the V chain, at any depth
RootInChain(t) == \E d \in 0..MaxDepth : Last(t.parts) = ChainName(<<"V", d>>)

\* the type string of the declaration of u: in a function it is in the preamble
DeclaredType ==
    LET f == out.define
        p == CHOOSE i \in 1..Len(f) : Len(f[i]) >= 4 /\ f[i][4] = "u"
    IN  f[p][2]

\* C14: a class lowers to 'Namespace::ClassName' without '*' when SimpleObj
\* is anywhere in its chain of bases, and with '*' otherwise.
C14_ValueTypeIffRootInChain ==
    Written =>
        DeclaredType = TheClassType.parts[1] \o "::" \o TheClassType.parts[2]
                           \o (IF RootInChain(TheClassType) THEN "" ELSE "*")

\* what the code does: only the direct bases are looked at
C14_ValueTypeIffRootIsDirectBase ==
    Written =>
        DeclaredType = TheClassType.parts[1] \o "::" \o TheClassType.parts[2]
                           \o (IF Last(TheClassType.parts) = "V0" THEN "" ELSE "*")

-----------------------------------------------------------------------------
(* Modules of from-import statements *)

MaxImports == 2

ImportIds == {<<"core", "id_kind">>, <<"asdl">>, <<"typing">>}

ImportNames ==
    {<<<<"log", None>>>>, <<<<"Id", None>>>>, <<<<"tag_n", None>>>>,
     <<<<"format", "fmt">>>>, <<<<"Id", None>>, <<"Kind", "K">>>>}

Imports == {ImportFrom(id, names) : id \in ImportIds, names \in ImportNames}

RECURSIVE ImportSeqs(_)
ImportSeqs(n) ==
    IF n = 0 THEN {<<>>}
    ELSE ImportSeqs(n - 1) \cup
         {Append(q, i) : q \in {r \in ImportSeqs(n - 1) : Len(r) = n - 1}, i \in Imports}

ImportModules == {MypyFile(<<"pkg", "m1">>, defs) : defs \in ImportSeqs(MaxImports) \ {<<>>}}

InitImport == Start(ImportModules)

SpecImport == InitImport /\ [][Next]_vars

\* the using and namespace-alias lines in an output, in order
AliasLines(f) ==
    LET is_alias(w) == Len(w) >= 5 /\ w[2] \in {"using ", "namespace "} /\ w[4] \in {"::", " = "}
    IN  Flat([i \in 1..Len(SelectSeq(f, is_alias)) |-> Flat(SelectSeq(f, is_alias)[i])])

\* the line of one imported name, by the rules of the import statement
RECURSIVE LinesOfNames(_, _)
LinesOfNames(id, names) ==
    IF Len(names) = 0 THEN ""
    ELSE LET name == names[1][1]
             alias == names[1][2]
             line == IF Len(id) > 1
                     THEN IF name = "tag_n"
                          THEN "namespace tag_n = " \o Last(id) \o "::tag_n;\n"
                          ELSE "using " \o Last(id) \o "::" \o name \o ";\n"
                     ELSE IF alias # None
                          THEN "namespace " \o alias \o " = " \o name \o ";\n"
                          ELSE ""
         IN  line \o LinesOfNames(id, Tail(names))

RECURSIVE LinesOfImports(_)
LinesOfImports(defs) ==
    IF Len(defs) = 0 THEN ""
    ELSE (IF defs[1].id = <<"typing">> \/ defs[1].names = <<<<"log", None>>>> THEN ""
          ELSE LinesOfNames(defs[1].id, defs[1].names))
         \o LinesOfImports(Tail(defs))

\* C16 as stated: nothing in the forward-declare pass, the lines in the
\* declare pass and in the define pass.
C16_ImportWrittenInDeclareAndDefine ==
    Written =>
        /\ AliasLines(out.forward) = ""
        /\ AliasLines(out.decl) = LinesOfImports(module.defs)
        /\ AliasLines(out.define) = LinesOfImports(module.defs)

\* C16: a from-import writes nothing in the forward-declare pass and nothing
\* in the declare pass; its 'using Module::Name;' and 'namespace alias = ...;'
\* lines are written in the define pass only.
C16_ImportWrittenInDefineOnly ==
    Written =>
        /\ AliasLines(out.forward) = ""
        /\ AliasLines(out.decl) = ""
        /\ AliasLines(out.define) = LinesOfImports(module.defs)

\* from core.id_kind import Id, Kind as K, then from asdl import format as fmt
C16_Witness ==
    /\ Written
    /\ module.defs = <<ImportFrom(<<"core", "id_kind">>, <<<<"Id", None>>, <<"Kind", "K">>>>),
                       ImportFrom(<<"asdl">>, <<<<"format", "fmt">>>>)>>
    /\ AliasLines(out.define) =
          "using id_kind::Id;\n" \o "using id_kind::Kind;\n" \o "namespace fmt = format;\n"
    /\ AliasLines(out.decl) = ""

-----------------------------------------------------------------------------
(* A pass run twice over the same inputs *)

MaxAgain == 3

\* from core import util
ImportUtil == ImportFrom(<<"core">>, <<<<"util", None>>>>)

\* util.f()
UtilCall ==
    ExpressionStmt(CallExpr(MemberExpr(NameExpr("util", AnyType), "f",
                                       CallableType(<<>>, NoneTyp)), <<>>, NoneTyp))

AgainDefs ==
    {<<ImportUtil>>, <<UtilCall>>, <<FmtStmt(1)>>, <<FmtStmt(2)>>,
     Placed("func", 1, <<UnpackStmt, UnpackStmt>>)}

RECURSIVE AgainSeqs(_)
AgainSeqs(n) ==
    IF n = 0 THEN {<<>>}
    ELSE AgainSeqs(n - 1) \cup
         {q \o d : q \in {r \in AgainSeqs(n - 1) : Len(r) = n - 1}, d \in AgainDefs}

AgainModules == {MypyFile(<<"pkg", "m1">>, defs) : defs \in AgainSeqs(MaxAgain)}

\* a second run on the instance of the first run, its output emptied
Again_same_instance(old, virt, lvars) == [old EXCEPT !.f = <<>>]

\* the instance of a second run of the pass: constructed anew from the
\* arguments of the first
Again(old, virt, lvars) == NewGenerate(virt, lvars, old.decl, old.forward_decl)

\* the driver keeps the arguments the instance of this pass was constructed with
KeepInputs ==
    /\ pc = "begin"
    /\ run.pc = "idle"
    /\ run' = [pc |-> "kept", pass |-> pass, virtual |-> g.virtual,
               local_vars |-> g.local_vars]
    /\ UNCHANGED <<module, pass, pc, idx, g, out>>

\* the pass has ended: it is run again over the same module
Rerun ==
    /\ pc = "ended"
    /\ run.pc = "kept"
    /\ run.pass = pass
    /\ g' = Again(g, run.virtual, run.local_vars)
    /\ run' = [run EXCEPT !.pc = "again"]
    /\ pc' = "begin"
    /\ idx' = 1
    /\ UNCHANGED <<module, pass, out>>

NextAgain == Next \/ KeepInputs \/ Rerun

InitAgain == Start(AgainModules)

SpecAgain == InitAgain /\ [][NextAgain]_vars

\* the second run of a pass ends
SecondRunEnds == run.pc = "again" /\ run.pass = pass /\ pc = "defs" /\ pc' = "ended"

-----------------------------------------------------------------------------
(* Classes whose methods assign to members *)

MaxFields == 2

\* self.a = v, self.x = v, self.b = v and other.b = v
MemberAssign(obj, name) ==
    AssignmentStmt(MemberExpr(NameExpr(obj, AnyType), name, IntT), NameExpr("v", IntT))

FieldStmts == {MemberAssign("self", "x"), MemberAssign("self", "a"), MemberAssign("other", "b")}

RECURSIVE FieldBodies(_)
FieldBodies(n) ==
    IF n = 0 THEN {<<>>}
    ELSE FieldBodies(n - 1) \cup
         {Append(q, st) : q \in {r \in FieldBodies(n - 1) : Len(r) = n - 1}, st \in FieldStmts}

FieldMethod(class, name, stmts) ==
    FuncDef(class \o "." \o name, name, <<"self">>, <<ClassT("m1", class)>>, NoneTyp,
            Block(stmts))

\* def g(self): self.z = v, then class K1 with __init__ and f, then class K2
\* with f
FieldModules ==
    {MypyFile(<<"pkg", "m1">>,
        <<FuncDef("g", "g", <<"self">>, <<ClassT("m1", "K1")>>, NoneTyp,
                  Block(<<MemberAssign("self", "z")>>)),
          ClassDef("K1", <<>>, Block(<<FieldMethod("K1", "__init__", b1),
                                       FieldMethod("K1", "f", b2)>>)),
          ClassDef("K2", <<>>, Block(<<FieldMethod("K2", "f", b3)>>))>>) :
        b1 \in FieldBodies(MaxFields) \ {<<>>}, b2 \in FieldBodies(MaxFields),
        b3 \in {<<>>, <<MemberAssign("self", "b")>>, <<MemberAssign("self", "y")>>}}

InitFields == Start(FieldModules)

SpecFields == InitFields /\ [][Next]_vars

\* the writes of the declaration of class c in the declare output
ClassDeclWrites(f, c) ==
    LET first == CHOOSE i \in 1..Len(f) : f[i] = <<"", "class ", c>>
        last == CHOOSE j \in first..Len(f) :
                    /\ f[j] = <<"", "};\n">>
                    /\ \A k \in first..(j - 1) : f[k] # <<"", "};\n">>
    IN  SubSeq(f, first, last)

\* the names of the field declarations  'type name;'  of class c, in order
FieldsDeclared(f, c) ==
    LET is_field(w) == Len(w) = 5 /\ w[3] = " " /\ w[5] = ";\n"
        lines == SelectSeq(ClassDeclWrites(f, c), is_field)
    IN  [i \in 1..Len(lines) |-> lines[i][4]]

\* the statements of the methods of a class
MethodStmts(class) ==
    UNION {{class.defs.body[k].body.body[i] : i \in 1..Len(class.defs.body[k].body.body)} :
              k \in 1..Len(class.defs.body)}

\* the names assigned as self.name = value in the methods of a class
FieldsAssigned(class) ==
    {st.lvalues[1].name : st \in {a \in MethodStmts(class) : a.lvalues[1].expr.name = "self"}}

NameRank(n) == CHOOSE i \in 1..Len(NameOrder) : NameOrder[i] = n

\* C17: in the declare pass the field declarations at the end of a class are
\* the fields assigned as self.field = value in the methods of that class,
\* each once, in ascending order of name; a field assigned only in another
\* class or in code before the class is not among them.
C17_FieldsAreOwnAssignedFields ==
    (pass # "forward" /\ out.decl # <<>>) =>
        \A k \in 2..3 :
            LET class == module.defs[k]
                fields == FieldsDeclared(out.decl, class.name)
            IN  /\ {fields[i] : i \in 1..Len(fields)} = FieldsAssigned(class)
                /\ \A i, j \in 1..Len(fields) :
                      i < j => NameRank(fields[i]) < NameRank(fields[j])

\* K1 assigns x then a in __init__ and x again in f; K2 assigns b
C17_Witness ==
    /\ pass = "decl" /\ pc = "ended"
    /\ module.defs[2].defs.body[1].body.body = <<MemberAssign("self", "x"), MemberAssign("self", "a")>>
    /\ module.defs[2].defs.body[2].body.body = <<MemberAssign("other", "b"), MemberAssign("self", "x")>>
    /\ FieldsDeclared(out.decl, "K1") = <<"a", "x">>
    /\ FieldsDeclared(out.decl, "K2") = <<"b">>

-----------------------------------------------------------------------------
(* A class with several base-type expressions *)

MaxBases == 2

\* object, Exception, two classes of the module, and a dotted base
BaseExprs ==
    {NameExpr("object", AnyType), NameExpr("Exception", AnyType),
     NameExpr("B1", AnyType), NameExpr("B2", AnyType),
     MemberExpr(NameExpr("pybase", AnyType), "SimpleObj", AnyType)}

RECURSIVE BaseSeqs(_)
BaseSeqs(n) ==
    IF n = 0 THEN {<<>>}
    ELSE BaseSeqs(n - 1) \cup
         {Append(q, b) : q \in {r \in BaseSeqs(n - 1) : Len(r) = n - 1}, b \in BaseExprs}

\* class B1, class B2, class K(bases)
BasesModules ==
    {MypyFile(<<"pkg", "m1">>,
        <<ClassDef("B1", <<>>, Block(<<>>)), ClassDef("B2", <<>>, Block(<<>>)),
          ClassDef("K", bases, Block(<<>>))>>) : bases \in BaseSeqs(MaxBases)}

InitBases == Start(BasesModules)

SpecBases == InitBases /\ [][Next]_vars

TheBases == module.defs[3].base_type_exprs

ValidBase(b) == b.kind = "NameExpr" /\ b.name \notin {"object", "Exception"}

ValidBases == SelectSeq(TheBases, ValidBase)

\* the text between 'class K' and ' {' in the declare output
PublicBase ==
    LET first == CHOOSE i \in 1..Len(out.decl) : out.decl[i] = <<"", "class ", "K">>
    IN  IF out.decl[first + 1] = <<" {\n">> THEN "" ELSE Flat(out.decl[first + 1])

\* the superclass links of K in the registry
SuperclassesOfK == {link[1] : link \in {l \in g.virtual.subclasses : l[2] = "K"}}

\* C18 as stated: the base of a class with several base-type expressions is
\* the first name among them that is neither object nor Exception, after
\* ': public' and in the registry.
C18_BaseIsFirstValidName ==
    (Written /\ Len(ValidBases) > 0) =>
        /\ PublicBase = " : public " \o ValidBases[1].name
        /\ SuperclassesOfK = {ValidBases[1].name}

\* what the loop over the base-type expressions does: the last such name
C18_BaseIsLastValidName ==
    (Written /\ Len(ValidBases) > 0) =>
        /\ PublicBase = " : public " \o ValidBases[Len(ValidBases)].name
        /\ SuperclassesOfK = {ValidBases[Len(ValidBases)].name}

-----------------------------------------------------------------------------
(* Modules with one loop of each shape, with and without an else clause *)

\* done = 1
DoneStmt == AssignmentStmt(NameExpr("done", IntT), IntExpr(1))

ElseBodies == {NoNode, Block(<<DoneStmt>>)}

\* for i in xrange(n), for i in xrange(0, n), for i in range(n),
\* for i, x in enumerate(items), for x in items
ShapedLoops(body) ==
    {RangeLoop("xrange", <<NameExpr("n", IntT)>>, body),
     RangeLoop("xrange", <<IntExpr(0), NameExpr("n", IntT)>>, body),
     RangeLoop("range", <<NameExpr("n", IntT)>>, body),
     EnumerateLoop(ListT(IntT), body),
     ForStmt(NameExpr("x", StrT), NameExpr("items", ListT(StrT)), Block(body), NoNode, StrT)}

ElseModules ==
    {MypyFile(<<"pkg", "m1">>, Placed(place, 1, <<[loop EXCEPT !.else_body = e]>>)) :
        place \in {"toplevel", "func"},
        loop \in UNION {ShapedLoops(b) : b \in LoopBodies(MaxBody)},
        e \in ElseBodies}

InitElse == Start(ElseModules)

SpecElse == InitElse /\ [][Next]_vars

\* the loop is the counting loop of an xrange call
IsCountingShape ==
    /\ TheLoop.expr.kind = "CallExpr"
    /\ TheLoop.expr.callee.name = "xrange"

\* the writes of the define output that begin the statement  done = 1
ElseMarks ==
    {i \in 2..Len(out.define) :
        LET w == out.define[i]
        IN  Len(w) >= 2 /\ w[Len(w)] = " = " /\ w[Len(w) - 1] = "done"}

\* the else body stands once, in a block that follows the closing brace of
\* the loop
ElseBodyFollowsLoop ==
    /\ Cardinality(ElseMarks) = 1
    /\ \A i \in ElseMarks :
          /\ i > 2
          /\ out.define[i - 1] = <<"{\n">>
          /\ Last(out.define[i - 2]) = "}\n"

\* C19 as stated: a loop of any of the three shapes that has an else clause
\* is written as the loop followed by the else body, once.
C19_ElseBodyAfterEveryShape ==
    (Written /\ TheLoop.else_body.kind # "None") => ElseBodyFollowsLoop

\* the else body follows the iterator loops (enumerate and general); the
\* counting loop of an xrange call is written without it
C19_ElseBodyAfterIteratorLoopsOnly ==
    (Written /\ TheLoop.else_body.kind # "None") =>
        IF IsCountingShape THEN ElseMarks = {} ELSE ElseBodyFollowsLoop

-----------------------------------------------------------------------------
(* Modules with one loop over a list of tuples, with or without enumerate *)

\* for a, b in pairs: pass
PairsLoop(items) ==
    ForStmt(TupleExpr(items, TypeOfTargets(items)),
            NameExpr("pairs", ListT(TypeOfTargets(items))),
            Block(<<PassStmt>>), NoNode, TypeOfTargets(items))

\* for i, (a, b) in enumerate(pairs): pass
EnumeratePairsLoop(items) ==
    ForStmt(TupleExpr(<<NameExpr("i", IntT), TupleExpr(items, TypeOfTargets(items))>>,
                      TupleType(<<IntT, TypeOfTargets(items)>>)),
            CallExpr(NameExpr("enumerate", AnyType),
                     <<NameExpr("pairs", ListT(TypeOfTargets(items)))>>, AnyType),
            Block(<<PassStmt>>), NoNode, TupleType(<<IntT, TypeOfTargets(items)>>))

PairsModules ==
    {MypyFile(<<"pkg", "m1">>, Placed(place, 1, <<loop>>)) :
        place \in {"toplevel", "func"},
        loop \in UNION {{PairsLoop(items), EnumeratePairsLoop(items)} : items \in TupleLvals}}

InitPairs == Start(PairsModules)

SpecPairs == InitPairs /\ [][Next]_vars

IsEnumerateShape ==
    /\ TheLoop.expr.kind = "CallExpr"
    /\ TheLoop.expr.callee.name = "enumerate"

\* the targets (a, b) of the element
ElementTargets ==
    IF IsEnumerateShape THEN TheLoop.index.items[2].items ELSE TheLoop.index.items

\* the extraction statements of the targets from position k on, one for each
\* target that is not the discard name
RECURSIVE Extractions(_, _, _, _)
Extractions(items, k, temp, ind) ==
    IF k > Len(items) THEN ""
    ELSE (IF items[k].kind = "NameExpr" /\ items[k].name = "_" THEN ""
          ELSE ind \o TargetText(items[k]) \o " = " \o temp \o "->at" \o IntStr(k - 1)
                   \o "();\n")
         \o Extractions(items, k + 1, temp, ind)

\* the text of the loop from the first statement within its braces to the end
\* of the loop
LoopInside ==
    LET f == out.define
        e == CHOOSE i \in 1..Len(f) : f[i][1] = "); !it.Done(); it.Next()"
        c == CHOOSE j \in e..Len(f) :
                 /\ f[j] = <<LoopIndent, "}\n">>
                 /\ \A k \in e..(j - 1) : f[k] # <<LoopIndent, "}\n">>
    IN  Text(SubSeq(f, e + 1, c))

\* the element is bound to the temporary tup0, which is then destructured
DestructuredThroughTemporary ==
    LoopInside =
        LoopIndent \o "  " \o get_c_type(TypeOfTargets(ElementTargets)) \o " tup0 = it.Value();\n"
        \o Extractions(ElementTargets, 1, "tup0", LoopIndent \o "  ")
        \o LoopIndent \o "  " \o ";  // pass\n"
        \o LoopIndent \o "}\n"

\* C20 as stated: also in an enumerate loop, an element that is a tuple is
\* bound to a temporary that the tuple-unpacking routine destructures, one
\* extraction statement for each target that is not the discard name, as in
\* the general loop over a list of tuples.
C20_EnumerateDestructuresTuple ==
    (Written /\ IsEnumerateShape) => DestructuredThroughTemporary

\* the general loop over a list of tuples destructures the element
C20_GeneralLoopDestructuresTuple ==
    (Written /\ ~IsEnumerateShape) => DestructuredThroughTemporary

-----------------------------------------------------------------------------
(* Modules with one tuple-target assignment some of whose targets are tuples *)

MaxNested == 2

NestedPairT == TupleType(<<StrT, IntT>>)

\* a, _, (b, c) and (b, _) as targets
NestedTargets ==
    {NameExpr("a", IntT), NameExpr("_", IntT),
     TupleExpr(<<NameExpr("b", StrT), NameExpr("c", IntT)>>, NestedPairT),
     TupleExpr(<<NameExpr("b", StrT), NameExpr("_", IntT)>>, NestedPairT)}

RECURSIVE NestedSeqs(_)
NestedSeqs(n) ==
    IF n = 0 THEN {<<>>}
    ELSE {Append(q, x) : q \in NestedSeqs(n - 1), x \in NestedTargets}

NestedLvals == UNION {NestedSeqs(n) : n \in 2..MaxNested}

\* a, (b, c) = t
NestedAssignment(items) ==
    AssignmentStmt(TupleExpr(items, TypeOfTargets(items)), NameExpr("t", TypeOfTargets(items)))

NestedModules ==
    {MypyFile(<<"pkg", "m1">>, Placed(place, 1, <<NestedAssignment(items)>>)) :
        place \in {"toplevel", "func"}, items \in NestedLvals}

InitNested == Start(NestedModules)

SpecNested == InitNested /\ [][Next]_vars

\* the define output has the extraction statement  name = temp->atK();
ExtractedAt(name, k) ==
    \E i \in 1..(Len(out.define) - 1) :
        /\ out.define[i] = <<AssignmentIndent, name>>
        /\ Len(out.define[i + 1]) = 5
        /\ out.define[i + 1][1] = " = "
        /\ out.define[i + 1][3] = "->at"
        /\ out.define[i + 1][4] = IntStr(k)

\* the names in the local-variable lists of all functions
AllLocalNames ==
    UNION {{g.local_vars[fn][i][1] : i \in 1..Len(g.local_vars[fn])} : fn \in DOMAIN g.local_vars}

\* the discard name is written nowhere and declared nowhere
DiscardDropped ==
    /\ \A i \in 1..Len(out.define) :
          \A j \in 1..Len(out.define[i]) : out.define[i][j] # "_"
    /\ "_" \notin AllLocalNames

HasNestedTarget ==
    \E k \in 1..Len(TheAssignment.lvalues[1].items) :
        TheAssignment.lvalues[1].items[k].kind = "TupleExpr"

\* C21 as stated: a target that is itself a tuple is unpacked by the same
\* routine, one extraction statement for each of its targets that is not the
\* discard name, and the discard name at any level gives no statement and no
\* entry in the local-variable list.
C21_NestedTargetsUnpacked ==
    Written =>
        LET items == TheAssignment.lvalues[1].items
        IN  /\ \A k \in 1..Len(items) :
                  items[k].kind = "TupleExpr" =>
                      \A j \in 1..Len(items[k].items) :
                          items[k].items[j].name # "_" =>
                              ExtractedAt(items[k].items[j].name, j - 1)
            /\ DiscardDropped

\* without a tuple among the targets the discard name is dropped
C21_DiscardDroppedAtTopLevel == (Written /\ ~HasNestedTarget) => DiscardDropped

-----------------------------------------------------------------------------
(* Modules whose statements stand at module level, in a function, in a method
   or in a constructor *)

InitOf(params, body) ==
    ClassDef("K", <<>>,
             Block(<<FuncDef("K.__init__", "__init__", <<"self">> \o params,
                             <<ClassT("m1", "K")>> \o [i \in 1..Len(params) |-> IntT],
                             NoneTyp, Block(body))>>))

ScopeModules ==
    {MypyFile(<<"pkg", "m1">>, <<def>>) :
        def \in UNION {{FuncOf(ps, body), MethodOf(ps, body), InitOf(ps, body)} :
                          ps \in ParamChoices, body \in Bodies(LocalStmts, MaxStmts)}}
    \cup {MypyFile(<<"pkg", "m1">>, body) : body \in Bodies(LocalStmts, MaxStmts)}

InitScopes == Start(ScopeModules)

SpecScopes == InitScopes /\ [][Next]_vars

AtModuleScope == module.defs[1].kind \notin {"FuncDef", "ClassDef"}

InConstructor == module.defs[1].kind = "ClassDef" /\ TheFunc.name = "__init__"

\* the names that the define output assigns without a type: name = ...,
\* name = tupN->atK(); and name = 0;
BareNames ==
    LET f == out.define IN
    {f[i][2] : i \in {j \in 1..Len(f) : Len(f[j]) = 3 /\ f[j][3] \in {" = ", " = 0;\n"}}}
    \cup {f[i][2] : i \in {j \in 1..(Len(f) - 1) :
                              /\ Len(f[j]) = 2
                              /\ Len(f[j + 1]) = 5
                              /\ f[j + 1][1] = " = "
                              /\ f[j + 1][3] = "->at"}}

\* the names declared by a line 'type name;'
DeclaredNames == {w[4] : w \in {out.define[i] : i \in {j \in 1..Len(out.define) : IsVarDecl(out.define[j])}}}

ParamNames == {TheFunc.arguments[k] : k \in 1..Len(TheFunc.arguments)}

BareNamesAreDeclared == BareNames \subseteq (DeclaredNames \cup ParamNames)

\* at module scope every name-target assignment is written with its type
ModuleScopeTyped ==
    \A k \in 1..Len(module.defs) :
        LET st == module.defs[k] IN
        (st.kind = "AssignmentStmt" /\ st.lvalues[1].kind = "NameExpr") =>
            /\ \E i \in 1..Len(out.define) :
                  out.define[i] = <<"", get_c_type(st.lvalues[1].type), " ",
                                    st.lvalues[1].name, " = ">>
            /\ \A i \in 1..Len(out.define) :
                  out.define[i] # <<"", st.lvalues[1].name, " = ">>

\* C22 as stated: a name assigned without a type in the body of a function,
\* a method or a constructor is a parameter or is declared at the top of
\* that body; at module scope a name-target assignment carries its type.
C22_BareAssignmentsAreDeclared ==
    Written => IF AtModuleScope THEN ModuleScopeTyped ELSE BareNamesAreDeclared

\* the same, but for the body of a constructor
C22_DeclaredOutsideConstructors ==
    (Written /\ ~InConstructor) =>
        IF AtModuleScope THEN ModuleScopeTyped ELSE BareNamesAreDeclared

-----------------------------------------------------------------------------
(* Modules in which the same statement stands before and after nested
   constructs *)

MaxInner == 2

\* x = 1
AssignX == AssignmentStmt(NameExpr("x", IntT), IntExpr(1))

\* def h(): pass
NestedFunc == FuncDef("h", "h", <<>>, <<>>, NoneTyp, Block(<<PassStmt>>))

\* class J: def m(self): pass
NestedClass ==
    ClassDef("J", <<>>,
             Block(<<FuncDef("J.m", "m", <<"self">>, <<ClassT("m1", "J")>>, NoneTyp,
                             Block(<<PassStmt>>))>>))

\* for e in items: pass,  for i, x in enumerate(items): pass,
\* for k in xrange(n): pass
InnerLoops ==
    {ForStmt(NameExpr("e", StrT), NameExpr("items", ListT(StrT)), Block(<<PassStmt>>),
             NoNode, StrT),
     EnumerateLoop(ListT(IntT), <<PassStmt>>),
     ForStmt(NameExpr("k", IntT), RangeCall("xrange", <<NameExpr("n", IntT)>>),
             Block(<<PassStmt>>), NoNode, IntT)}

InnerStmts == InnerLoops \cup {NestedFunc}

RECURSIVE InnerSeqs(_, _)
InnerSeqs(pool, n) ==
    IF n = 0 THEN {<<>>}
    ELSE InnerSeqs(pool, n - 1) \cup
         {Append(q, st) : q \in {r \in InnerSeqs(pool, n - 1) : Len(r) = n - 1}, st \in pool}

KMethod(name) ==
    FuncDef("K." \o name, name, <<"self">>, <<ClassT("m1", "K")>>, NoneTyp,
            Block(<<PassStmt>>))

\* x = 1, nested constructs, x = 1: at module level, in a function, in a method;
\* and class K with method f1, nested constructs, method f2
FrameModules ==
    {MypyFile(<<"pkg", "m1">>, Placed(place, 1, <<AssignX>> \o inner \o <<AssignX>>)) :
        place \in {"toplevel", "func", "method"}, inner \in InnerSeqs(InnerStmts, MaxInner)}
    \cup {MypyFile(<<"pkg", "m1">>,
                   <<ClassDef("K", <<>>,
                              Block(<<KMethod("f1")>> \o inner \o <<KMethod("f2")>>))>>) :
            inner \in InnerSeqs({NestedClass}, MaxInner)}

InitFrames == Start(FrameModules)

SpecFrames == InitFrames /\ [][Next]_vars

\* the module is class K with the methods f1 and f2
IsMethodPair ==
    /\ module.defs[1].kind = "ClassDef"
    /\ module.defs[1].defs.body[1].name = "f1"

\* the writes of the define output that begin an assignment to x
XStarts ==
    SelectSeq(out.define,
              LAMBDA w : Len(w) >= 2 /\ w[Len(w)] = " = " /\ w[Len(w) - 1] = "x")

\* the statement before and the statement after the nested constructs are
\* written alike; the methods before and after are recorded under their class
SameContextAfterNested ==
    IF IsMethodPair
    THEN {<<"K", "f1">>, <<"K", "f2">>} \subseteq g.virtual.methods
    ELSE Len(XStarts) = 2 /\ XStarts[1] = XStarts[2]

\* C23 as stated: the visit of a nested construct leaves 'current class',
\* 'in function body' and 'indent level' as it found them, so that the
\* statements after it are lowered in the context of the statements before it.
C23_ContextRestoredAfterNested == Written => SameContextAfterNested

\* a function defined in a function body, or a class defined in a class body
HasNestedDefinition ==
    IF IsMethodPair THEN Len(module.defs[1].defs.body) > 2
    ELSE /\ module.defs[1].kind \in {"FuncDef", "ClassDef"}
         /\ \E i \in 1..Len(TheFunc.body.body) : TheFunc.body.body[i].kind = "FuncDef"

\* the context is as before after loops and blocks, and after definitions
\* that do not stand in a definition of their kind
C23_ContextRestoredAfterLoops ==
    (Written /\ ~HasNestedDefinition) => SameContextAfterNested

-----------------------------------------------------------------------------
(* Modules with one if statement *)

MaxCond == 1

\* __name__ == '__main__', 0 and other literals, TYPE_CHECKING, mylib.CPP,
\* mylib.PYTHON, and a variable
IfConds ==
    {ComparisonExpr("==", NameExpr("__name__", StrT), StrExpr("__main__", "str0")),
     NameExpr("TYPE_CHECKING", BoolT),
     MemberExpr(NameExpr("mylib", AnyType), "CPP", BoolT),
     MemberExpr(NameExpr("mylib", AnyType), "PYTHON", BoolT),
     NameExpr("c", BoolT)}
    \cup {IntExpr(v) : v \in 0..MaxCond}

\* inbody = 1  and  inelse = 2
InBody == AssignmentStmt(NameExpr("inbody", IntT), IntExpr(1))
InElse == AssignmentStmt(NameExpr("inelse", IntT), IntExpr(2))

IfStmts ==
    {IfStmt(<<cond>>, <<Block(<<InBody>> \o more)>>, e) :
        cond \in IfConds, more \in {<<>>, <<AssignX>>},
        e \in {NoNode, Block(<<InElse>>)}}

IfModules ==
    {MypyFile(<<"pkg", "m1">>, Placed(place, 1, <<st>>)) :
        place \in {"toplevel", "func", "method"}, st \in IfStmts}

InitIf == Start(IfModules)

SpecIf == InitIf /\ [][Next]_vars

TheIf ==
    CASE module.defs[1].kind = "FuncDef" -> module.defs[1].body.body[1]
      [] module.defs[1].kind = "ClassDef" -> module.defs[1].defs.body[1].body.body[1]
      [] OTHER -> module.defs[1]

TheCond == TheIf.expr[1]

\* the number of assignments to the name in the define output
Assigned(name) ==
    Len(SelectSeq(out.define,
                  LAMBDA w : Len(w) >= 2 /\ w[Len(w)] = " = " /\ w[Len(w) - 1] = name))

\* the name occurs in the text of a pass, or in a local-variable list
Mentioned(name) ==
    \/ \E p \in {"forward", "decl", "define"} :
          \E i \in 1..Len(out[p]) : \E j \in 1..Len(out[p][i]) : out[p][i][j] = name
    \/ name \in AllLocalNames

IsOmittedCond ==
    \/ TheCond.kind = "ComparisonExpr"
    \/ TheCond.kind = "IntExpr" /\ TheCond.value = 0
    \/ TheCond.kind = "NameExpr" /\ TheCond.name = "TYPE_CHECKING"

IsModeCond(mode) == TheCond.kind = "MemberExpr" /\ TheCond.name = mode

\* C24: an if on a __name__ comparison, on the literal 0 or on TYPE_CHECKING
\* gives no text and no local variable for its body or its else branch; an
\* if on the C++-mode flag gives its body and never its else branch; an if on
\* the Python-mode flag gives its else branch, if there is one, and never its
\* body.
C24_IfElisionAndModeGuards ==
    Written =>
        /\ IsOmittedCond => ~Mentioned("inbody") /\ ~Mentioned("inelse")
        /\ IsModeCond("CPP") => Assigned("inbody") = 1 /\ ~Mentioned("inelse")
        /\ IsModeCond("PYTHON") =>
              /\ ~Mentioned("inbody")
              /\ Assigned("inelse") = (IF TheIf.else_body.kind = "None" THEN 0 ELSE 1)

\* if mylib.PYTHON: inbody = 1 / else: inelse = 2, in a function
C24_Witness ==
    /\ Written
    /\ module.defs[1].kind = "FuncDef"
    /\ TheIf = IfStmt(<<MemberExpr(NameExpr("mylib", AnyType), "PYTHON", BoolT)>>,
                      <<Block(<<InBody>>)>>, Block(<<InElse>>))
    /\ Assigned("inelse") = 1
    /\ g.local_vars["f1"] = <<<<"inelse", "int">>>>

-----------------------------------------------------------------------------
(* Classes whose constructor may begin with a call of the base constructor *)

MaxCtorArgs == 2

MaxCtorBody == 2

\* the arguments of the base call after the receiver
CtorArgPool == {NameExpr("p", IntT), NameExpr("q", IntT), IntExpr(0)}

\* B.__init__(self, args)
BaseInitCall(args) ==
    ExpressionStmt(
        CallExpr(MemberExpr(NameExpr("B", AnyType), "__init__", CallableType(<<>>, NoneTyp)),
                 <<NameExpr("self", ClassT("m1", "K"))>> \o args, NoneTyp))

\* self.a = p,  x = 1,  pass
CtorStmts == {MemberAssign("self", "a"), AssignX, PassStmt}

CtorDocstring == ExpressionStmt(StrExpr("doc", "str0"))

\* [docstring] [base call] statements
CtorBodies ==
    {doc \o call \o rest :
        doc \in {<<>>, <<CtorDocstring>>},
        call \in {<<>>} \cup {<<BaseInitCall(args)>> : args \in InnerSeqs(CtorArgPool, MaxCtorArgs)},
        rest \in InnerSeqs(CtorStmts, MaxCtorBody)}

\* class B, then class K(B) with __init__(self, p, q)
CtorModules ==
    {MypyFile(<<"pkg", "m1">>,
        <<ClassDef("B", <<>>, Block(<<>>)),
          ClassDef("K", <<NameExpr("B", AnyType)>>,
                   Block(<<FuncDef("K.__init__", "__init__", <<"self", "p", "q">>,
                                   <<ClassT("m1", "K"), IntT, IntT>>, NoneTyp,
                                   Block(body))>>))>>) :
        body \in {b \in CtorBodies : \E i \in 1..Len(b) : b[i] # CtorDocstring}}

InitCtor == Start(CtorModules)

SpecCtor == InitCtor /\ [][Next]_vars


CtorBody == module.defs[2].defs.body[1].body.body

\* the statements of the constructor without the docstring
CtorNonDoc == SelectSeq(CtorBody, LAMBDA st : st # CtorDocstring)

\* the first statement that is not the docstring calls the base initializer
IsHoisted ==
    /\ CtorNonDoc[1].kind = "ExpressionStmt"
    /\ CtorNonDoc[1].expr.kind = "CallExpr"
    /\ CtorNonDoc[1].expr.callee.name = "__init__"

\* the text of the define output from 'K::K(' to the end of the constructor
ConstructorText ==
    LET f == out.define
        first == CHOOSE i \in 1..Len(f) : f[i] = <<"", "K", "::", "K", "(">>
    IN  Text(SubSeq(f, first, Len(f) - 3))

CtorArgText(x) == IF x.kind = "IntExpr" THEN IntStr(x.value) ELSE x.name

\* the text of the statements of a constructor body, at one level of indent
RECURSIVE CtorStmtsText(_)
CtorStmtsText(stmts) ==
    IF Len(stmts) = 0 THEN ""
    ELSE (CASE stmts[1] = MemberAssign("self", "a") -> "  this->a = v;\n"
            [] stmts[1] = AssignX -> "  int x = 1;\n"
            [] stmts[1] = PassStmt -> "  ;  // pass\n")
         \o CtorStmtsText(Tail(stmts))

\* C25: in the define pass, a constructor whose first statement after the
\* docstring calls the base initializer is written with the initializer list
\* ': Base(args)' holding the arguments of the call without the receiver, in
\* order, and with the remaining statements as its body; any other
\* constructor is written with its whole body.
C25_BaseInitializerHoisted ==
    Written =>
        ConstructorText =
            "K::K(int p, int q) "
            \o (IF IsHoisted
                THEN LET args == Tail(CtorNonDoc[1].expr.args)
                     IN  ": B(" \o Join([i \in 1..Len(args) |-> CtorArgText(args[i])], ", ")
                             \o ") {\n" \o CtorStmtsText(Tail(CtorNonDoc))
                ELSE "{\n" \o CtorStmtsText(CtorNonDoc))
            \o "}\n"

\* a docstring; B.__init__(self, p, 0); self.a = v; pass
C25_Witness ==
    /\ Written
    /\ CtorBody = <<CtorDocstring, BaseInitCall(<<NameExpr("p", IntT), IntExpr(0)>>),
                    MemberAssign("self", "a"), PassStmt>>
    /\ ConstructorText =
          "K::K(int p, int q) : B(p, 0) {\n" \o "  this->a = v;\n" \o "  ;  // pass\n" \o "}\n"

-----------------------------------------------------------------------------
(* Modules of one function or one method, for the walk of its body in the
   forward-declare pass and in the declare pass *)

MaxWalk == 2

\* if c: inbody = 1
PlainIf == IfStmt(<<NameExpr("c", BoolT)>>, <<Block(<<InBody>>)>>, NoNode)

WalkStmts == LocalStmts \cup {FmtStmt(1), PlainIf, MemberAssign("self", "a"), NestedFunc}

WalkModules ==
    {MypyFile(<<"pkg", "m1">>, Placed(place, 1, body)) :
        place \in {"func", "method"}, body \in Bodies(WalkStmts, MaxWalk)}

InitWalk == Start(WalkModules)

SpecWalk == InitWalk /\ [][Next]_vars

\* the body of the function or method of the module
WalkedBody == TheFunc.body.body

\* what the declare pass writes for the definition apart from the walk of the
\* body: the prototype, and for a method the class around it with its members
DeclarationText ==
    IF module.defs[1].kind = "FuncDef" THEN "void f1();\n"
    ELSE "\n" \o "class K1 {\n" \o " public:\n" \o "  void f();\n"
         \o (IF \E i \in 1..Len(WalkedBody) : WalkedBody[i] = MemberAssign("self", "a")
             THEN "\n" \o "  int a;\n" ELSE "")
         \o "};\n"

\* what the forward-declare pass writes for the definition
ForwardText == IF module.defs[1].kind = "FuncDef" THEN "" ELSE "  class K1;\n"

\* the method name as the forward-declare pass records it
RecordedMethod ==
    IF module.defs[1].kind = "FuncDef" THEN <<None, "f1">> ELSE <<"K1", "f">>

\* the visit of the definition in the forward-declare or declare pass
WalkStep == pc = "defs" /\ idx = 1 /\ idx' = 2

WalkWritesNothing ==
    /\ (WalkStep /\ pass = "decl") => Text(g'.f) = Text(g.f) \o DeclarationText
    /\ (WalkStep /\ pass = "forward") =>
          /\ Text(g'.f) = Text(g.f) \o ForwardText
          /\ g'.virtual = OnMethod(g.virtual, RecordedMethod[1], RecordedMethod[2])

\* C26 as stated: in the declare pass the walk of a function or method body
\* writes no text (the text of the visit is the declaration alone); in the
\* forward-declare pass the visit of a function definition writes no text and
\* records the method name in the registry.
C26_BodyWalkWritesNothing == [][WalkWritesNothing]_vars

HasNestedFunc == \E i \in 1..Len(WalkedBody) : WalkedBody[i].kind = "FuncDef"

\* the same for bodies in which no function is defined
C26_BodyWalkWithoutNestedFunc == [][~HasNestedFunc => WalkWritesNothing]_vars

-----------------------------------------------------------------------------
(* Modules with one binary operation, written as an expression statement *)

BinaryOperators == {"+", "-", "*", "%"}

\* a string literal, and a variable of type str, Optional[str], int and bool
LeftOperands ==
    {StrExpr("a%s", "str0"), NameExpr("l", StrT), NameExpr("l", OptionalT(StrT)),
     NameExpr("l", IntT), NameExpr("l", BoolT)}

RightOperands ==
    {NameExpr("r", StrT), NameExpr("r", OptionalT(StrT)), NameExpr("r", IntT),
     NameExpr("r", BoolT)}

\* ('r', 1)
RightTuple == TupleExpr(<<NameExpr("r", StrT), IntExpr(1)>>, TupleType(<<StrT, IntT>>))

\* the format of a '%' on strings is a literal
BinaryExprs ==
    {x \in {OpExpr(op, l, r, AnyType) :
               op \in BinaryOperators, l \in LeftOperands, r \in RightOperands} :
        (x.op = "%" /\ x.left.type \in {StrT, OptionalT(StrT)}) => x.left.kind = "StrExpr"}
    \cup {OpExpr("%", StrExpr("a%s", "str0"), RightTuple, AnyType)}

BinaryModules ==
    {MypyFile(<<"pkg", "m1">>, Placed(place, 1, <<ExpressionStmt(x)>>)) :
        place \in {"toplevel", "func"}, x \in BinaryExprs}

InitBinary == Start(BinaryModules)

SpecBinary == InitBinary /\ [][Next]_vars

TheBinary ==
    IF module.defs[1].kind = "FuncDef" THEN module.defs[1].body.body[1].expr
    ELSE module.defs[1].expr

\* the text of an operand: a name, the name of a string constant, a number
BinText(x) ==
    CASE x.kind = "StrExpr" -> x.const
      [] x.kind = "IntExpr" -> IntStr(x.value)
      [] OTHER -> x.name

\* the arguments of the call of the format helper
FmtArgsText(x) ==
    IF x.kind = "TupleExpr"
    THEN Join([i \in 1..Len(x.items) |-> BinText(x.items[i])], ", ")
    ELSE BinText(x)

-----------------------------------------------------------------------------
(* Modules with a function f and a class K with a constructor, in both orders *)

MaxOwn == 2

\* the statements of f: a = 1, x = 2, and b, a = t
OwnStmts ==
    {AssignmentStmt(NameExpr("a", IntT), IntExpr(1)),
     AssignmentStmt(NameExpr("x", IntT), IntExpr(2)),
     AssignmentStmt(TupleExpr(<<NameExpr("b", StrT), NameExpr("a", IntT)>>, IntPairT),
                    NameExpr("t", IntPairT))}

\* the statements of __init__: p, q = t, a loop over enumerate(items), x = 1
InitStmts == {UnpackStmt, EnumerateLoop(ListT(StrT), <<PassStmt>>), AssignX}

OwnModules ==
    UNION {{MypyFile(<<"pkg", "m1">>, <<FuncOf(<<>>, body), InitOf(<<>>, ibody)>>),
            MypyFile(<<"pkg", "m1">>, <<InitOf(<<>>, ibody), FuncOf(<<>>, body)>>)} :
              body \in Bodies(OwnStmts, MaxOwn), ibody \in Bodies(InitStmts, MaxOwn)}

InitOwn == Start(OwnModules)

SpecOwn == InitOwn /\ [][Next]_vars

\* the names a statement binds
BoundBy(st) ==
    CASE st.kind = "AssignmentStmt" ->
           IF st.lvalues[1].kind = "TupleExpr"
           THEN {st.lvalues[1].items[k].name : k \in 1..Len(st.lvalues[1].items)}
           ELSE {st.lvalues[1].name}
      [] st.kind = "ForStmt" ->
           IF st.index.kind = "TupleExpr"
           THEN {st.index.items[k].name : k \in 1..Len(st.index.items)}
           ELSE {st.index.name}
      [] OTHER -> {}

BoundIn(body) == UNION {BoundBy(body[k]) : k \in 1..Len(body)}

\* the function of the module and the constructor of its class
OwnFunc == IF module.defs[1].kind = "FuncDef" THEN module.defs[1] ELSE module.defs[2]

OwnInit ==
    IF module.defs[1].kind = "ClassDef" THEN module.defs[1].defs.body[1]
    ELSE module.defs[2].defs.body[1]

\* the names in the list recorded for a function
RecordedNames(fn) == {g.local_vars[fn][i][1] : i \in 1..Len(g.local_vars[fn])}

DeclareEnded == pass = "decl" /\ pc = "ended"

\* C28: after the declare pass the list of local variables recorded for a
\* function holds only names that are bound in the body of that function; the
\* names bound by a tuple unpacking or as an enumerate counter in a
\* constructor are in the list of no other function.
C28_ListHoldsOwnNamesOnly ==
    DeclareEnded =>
        /\ OwnFunc.id \in DOMAIN g.local_vars
        /\ RecordedNames(OwnFunc.id) \subseteq BoundIn(OwnFunc.body.body)

\* the constructor unpacks a tuple or counts with enumerate
InitBindsLocals ==
    \E k \in 1..Len(OwnInit.body.body) :
        OwnInit.body.body[k] \in {UnpackStmt, EnumerateLoop(ListT(StrT), <<PassStmt>>)}

\* with the class before the function, or a constructor of plain assignments,
\* the list of f holds names of f only
C28_ListOfFunctionAfterClass ==
    (DeclareEnded /\ (module.defs[1].kind = "ClassDef" \/ ~InitBindsLocals)) =>
        /\ OwnFunc.id \in DOMAIN g.local_vars
        /\ RecordedNames(OwnFunc.id) \subseteq BoundIn(OwnFunc.body.body)

-----------------------------------------------------------------------------
(* One instance that translates several modules, one after the other *)

MaxUnits == 2

\* from core import <name>
ImportOf(name) == ImportFrom(<<"core">>, <<<<name, None>>>>)

\* <name>.f()
CallOn(name) ==
    ExpressionStmt(CallExpr(MemberExpr(NameExpr(name, AnyType), "f",
                                       CallableType(<<>>, NoneTyp)), <<>>, NoneTyp))

UnitNames == {"util", "ui"}

UnitDefs ==
    UNION {{<<CallOn(n)>>, <<ImportOf(n)>>, <<ImportOf(n), CallOn(n)>>,
            <<CallOn(n), ImportOf(n)>>, <<ImportOf(n), CallOn(m)>>} :
              n \in UnitNames, m \in UnitNames}

\* the k-th module handed to the instance
UnitModules(k) == {MypyFile(<<"pkg", "m" \o IntStr(k)>>, defs) : defs \in UnitDefs}

\* visit_mypy_file is called again on the same instance, with the next
\* module; run.n counts the modules before it and run.pos is the length of
\* the output at its start
NextModule ==
    /\ pc = "ended"
    /\ run.n + 1 < MaxUnits
    /\ module' \in UnitModules(run.n + 2)
    /\ run' = [run EXCEPT !.n = @ + 1, !.pos = Len(g.f)]
    /\ pc' = "begin"
    /\ idx' = 1
    /\ UNCHANGED <<pass, g, out>>

NextUnits == FileBegin \/ VisitDef \/ FileEnd \/ NextModule

InitUnits == StartAt(UnitModules(1), {"forward", "decl", "define"})

SpecUnits == InitUnits /\ [][NextUnits]_vars

\* the pieces written for the current module
UnitPieces == Pieces(SubSeq(g.f, run.pos + 1, Len(g.f)))

\* the operators written after the name in the current module
OperatorsAfter(name) ==
    {UnitPieces[k + 1] : k \in {j \in 1..(Len(UnitPieces) - 1) : UnitPieces[j] = name}}
    \cap {"::", "->"}

\* the name is imported in the current module before its definition i
ImportedBefore(name, i) == \E j \in 1..(i - 1) : module.defs[j] = ImportOf(name)

UnitWritten == pass = "define" /\ pc = "ended"

\* C29: the member-access operator written for name.member depends on the
\* imports of the module it stands in only: '::' when the module imports the
\* name before the access, '->' otherwise, also when a module translated
\* earlier by the same instance imported the name.
C29_OperatorFollowsOwnImports ==
    UnitWritten =>
        \A i \in 1..Len(module.defs) : \A n \in UnitNames :
            module.defs[i] = CallOn(n) =>
                OperatorsAfter(n) = IF ImportedBefore(n, i) THEN {"::"} ELSE {"->"}

\* in the first module of an instance the operator follows the imports of
\* that module
C29_OperatorInFirstModule ==
    (UnitWritten /\ run.n = 0) =>
        \A i \in 1..Len(module.defs) : \A n \in UnitNames :
            module.defs[i] = CallOn(n) =>
                OperatorsAfter(n) = IF ImportedBefore(n, i) THEN {"::"} ELSE {"->"}

-----------------------------------------------------------------------------
(* Modules with one format expression and the kinds of its right operand *)

MaxOperands == 3

\* r of type str and n of type int
OperandItems == {NameExpr("r", StrT), NameExpr("n", IntT)}

RECURSIVE OperandSeqs(_)
OperandSeqs(n) ==
    IF n = 0 THEN {<<>>}
    ELSE {Append(q, x) : q \in OperandSeqs(n - 1), x \in OperandItems}

OperandTuples == UNION {OperandSeqs(n) : n \in 2..MaxOperands}

\* a single value, an optional value, a tuple literal, a variable of tuple type
FormatOperands ==
    OperandItems \cup {NameExpr("r", OptionalT(StrT))}
    \cup {TupleExpr(items, TypeOfTargets(items)) : items \in OperandTuples}
    \cup {NameExpr("t", TypeOfTargets(items)) : items \in OperandTuples}

\* '%s=%d' % right
FormatOf(right) == OpExpr("%", StrExpr("%s=%d", "str0"), right, StrT)

FormatModules ==
    {MypyFile(<<"pkg", "m1">>, Placed(place, 1, <<ExpressionStmt(FormatOf(right))>>)) :
        place \in {"toplevel", "func", "method"}, right \in FormatOperands}

InitFormat == Start(FormatModules)

SpecFormat == InitFormat /\ [][Next]_vars

TheFormat ==
    CASE module.defs[1].kind = "FuncDef" -> module.defs[1].body.body[1].expr
      [] module.defs[1].kind = "ClassDef" -> module.defs[1].defs.body[1].body.body[1].expr
      [] OTHER -> module.defs[1].expr

\* the number of parameters of the helper in the declare text
HelperParameters ==
    LET ps == Pieces(out.decl)
        h == CHOOSE j \in 1..Len(ps) : ps[j] = "Str* "
        e == CHOOSE j \in h..Len(ps) :
                 ps[j] = ") {\n" /\ \A k \in h..(j - 1) : ps[k] # ") {\n"
    IN  IF \E j \in 1..Len(ps) : ps[j] = "Str* "
        THEN 1 + Cardinality({j \in h..e : ps[j] = ", "})
        ELSE 0

\* the number of arguments of the call of the helper in the define text
CallArguments ==
    LET f == out.define
        called(j) == Len(f[j]) = 2 /\ f[j][2] = "(" /\ f[j][1] = "fmt0"
        c == CHOOSE j \in 1..Len(f) : called(j)
        d == CHOOSE j \in c..Len(f) : f[j] = <<")">> /\ \A k \in c..(j - 1) : f[k] # <<")">>
    IN  IF \E j \in 1..Len(f) : called(j)
        THEN 1 + Cardinality({j \in c..d : f[j] = <<", ">>})
        ELSE 0

\* one for a single or optional value, the number of items for a tuple
OperandCount(type) == IF type.k = "TupleType" THEN Len(type.items) ELSE 1

ParametersMatchArguments ==
    /\ g.exc = ""
    /\ Written =>
          /\ HelperParameters = OperandCount(TheFormat.right.type)
          /\ CallArguments = OperandCount(TheFormat.right.type)

\* C30: every format expression is translated to a helper in the declare
\* pass and a call in the define pass, and the helper has as many parameters
\* as the call has arguments: one for a single or optional right operand, the
\* number of items for a right operand of tuple type, a tuple literal or a
\* variable.
C30_ParametersMatchArguments == ParametersMatchArguments

IsTupleVariable ==
    TheFormat.right.kind = "NameExpr" /\ TheFormat.right.type.k = "TupleType"

\* for a single value, an optional value and a tuple literal the numbers agree
C30_MatchForValuesAndLiterals == ~IsTupleVariable => ParametersMatchArguments

====
